---- MODULE Spec2Model ----
(***************************************************************************)
(* StudyAI backend: the AI provider chain (services/aiService.js), the     *)
(* request pipeline (authenticate middleware, routers, controllers) and    *)
(* the study-group controller, as state machines.                          *)
(***************************************************************************)
EXTENDS Integers, Sequences, FiniteSets, TLC

VARIABLES
    aiCall,        \* the AIService method invoked last, with its arguments
    aiResult,      \* the value that invocation returned
    aiLog,         \* provider attempts and fallbacks, in the order they ran
    req,           \* the HTTP request being served
    pc,            \* where that request is: idle, auth, handler, done
    reqUserId,     \* req.userId as authenticate left it
    resps,         \* responses sent for the request, in order
    handlerRuns,   \* how often a controller handler was invoked for it
    caught,        \* message of the error the handler's outer catch received
    plans,         \* StudyPlan documents saved: user and dailyContent days
    quizzes,       \* Quiz documents saved
    groups,        \* StudyGroup collection: id -> document or NoDoc
    groupsBefore,  \* the collection as the current handler found it
    sockets,       \* Socket.IO: clients' views, rooms, packets in flight
    boot,          \* startServer: its position, the database connection
    attempts,      \* QuizAttempt documents saved
    userProgress,  \* UserProgress documents saved: user, topic and study sessions
    study,         \* the StudySession component of a client
    inflight       \* requests served concurrently: each one's position and what it read

vars == <<aiCall, aiResult, aiLog, req, pc, reqUserId, resps, handlerRuns,
          caught, plans, quizzes, groups, groupsBefore, sockets,
          boot, attempts, userProgress, study, inflight>>

aiVars == <<aiCall, aiResult, aiLog>>
httpVars == <<req, pc, reqUserId, resps, handlerRuns, caught>>
dbVars == <<plans, quizzes, groups, groupsBefore, attempts, userProgress>>

----------------------------------------------------------------------------
(* Bounds of the model *)

MaxItems == 2      \* longest array a provider returns / largest questionCount
MaxLead == 2       \* largest leading integer of a duration string
MaxDocs == 1       \* documents saved per collection before requests stop
MaxStarts == 2     \* sessions the server starts for the StudySession component
MaxGroupSize == 3  \* largest settings.maxMembers a client asks for

----------------------------------------------------------------------------
(* JavaScript values *)

Undefined == [js |-> "undefined"]
Null == [js |-> "null"]
Num(n) == [js |-> "number", n |-> n]
Str(s) == [js |-> "string", s |-> s]
Txt(t) == [js |-> "string", text |-> t]
Arr(items) == [js |-> "array", items |-> items]
ObjectId(id) == [js |-> "ObjectId", id |-> id]

\* ObjectId.prototype.toString(): the hex string of the id
toString(x) == IF x.js = "ObjectId" THEN Str(x.id) ELSE x

\* a === b: operands of different types are never equal; two strings are
\* equal when their characters are; two objects only when they are the same
\* object, and an id stored in a document is never the object on req
StrictEq(a, b) ==
    /\ a.js = b.js
    /\ a.js \in {"string", "undefined", "null"}
    /\ a = b

\* a === b where both are a number or undefined
StrictNum(a, b) == a = b

\* text of a response: prose around it or not, and the JSON value it holds
Text(pre, json, n) == [pre |-> pre, json |-> json, n |-> n]
EmptyText == Text(FALSE, "none", 0)
Prose == Text(TRUE, "none", 0)
Texts ==
    {EmptyText, Prose, Text(FALSE, "object", 0)}
        \cup {Text(pre, "array", n) : pre \in BOOLEAN, n \in 0..MaxItems}

\* JSON.parse(text): the value, or a SyntaxError
JsonParse(t) ==
    IF t.pre \/ t.json = "none" THEN [threw |-> TRUE, value |-> Undefined]
    ELSE IF t.json = "array"
         THEN [threw |-> FALSE,
               value |-> Arr([i \in 1..t.n |-> [src |-> "ai", day |-> i]])]
         ELSE [threw |-> FALSE, value |-> [js |-> "object"]]

----------------------------------------------------------------------------
(* services/aiService.js *)

Providers == {"groq", "gemini", "auto", "huggingface"}

\* the keyword generateStructuredFallback finds first in the prompt
Prompts == {"study plan", "quiz", "explain", "other"}

\* what the Groq SDK does when asked: this.groq is null (key missing or
\* invalid), the call throws, or a completion with some text comes back
Env(kind) == [kind |-> kind]
Returns(t) == [kind |-> "text", text |-> t]
GroqEnv == {Env("null"), Env("throw")} \cup {Returns(t) : t \in Texts}
\* what Gemini does: key missing or invalid, the POST throws, the response
\* has no candidates, or a candidate with some text comes back
GeminiEnv ==
    {Env("badkey"), Env("throw"), Env("nocandidates")} \cup {Returns(t) : t \in Texts}

Success(content) ==
    [success |-> TRUE, content |-> content, fallback |-> FALSE, error |-> ""]
Failure(msg) ==
    [success |-> FALSE, content |-> Undefined, fallback |-> FALSE, error |-> msg]

generateWithGroq(g) ==
    IF g.kind = "null" THEN Failure("Groq SDK not initialized")
    ELSE IF g.kind = "throw" THEN Failure("groq error")
    ELSE Success(Txt(g.text))

generateWithGemini(m) ==
    IF m.kind = "badkey" THEN Failure("Gemini API key not configured or invalid")
    ELSE IF m.kind = "throw" THEN Failure("gemini error")
    ELSE IF m.kind = "nocandidates" THEN Failure("No candidates returned from Gemini API")
    ELSE Success(Txt(m.text))

\* the thresholds compared with < where the code has <=
DifficultyStrict(day, durationInDays) ==
    IF 3 * day < durationInDays THEN "Basic"
    ELSE IF 3 * day < 2 * durationInDays THEN "Intermediate"
    ELSE "Advanced"

\* day <= durationInDays / 3 and day <= (durationInDays * 2) / 3 in exact
\* arithmetic: the quotients are not rounded before the comparison
Difficulty(day, durationInDays) ==
    IF 3 * day <= durationInDays THEN "Basic"
    ELSE IF 3 * day <= 2 * durationInDays THEN "Intermediate"
    ELSE "Advanced"

\* durationInDays is Undefined when the caller passes the prompt alone:
\* day <= undefined is false and the loop body never runs
generateFallbackStudyPlan(durationInDays) ==
    IF durationInDays.js # "number" THEN <<>>
    ELSE [day \in 1..durationInDays.n |->
            [src |-> "template", day |-> day,
             difficulty |-> Difficulty(day, durationInDays.n)]]

generateFallbackQuiz(count) ==
    IF count.js # "number" THEN <<>>
    ELSE [i \in 1..count.n |-> [src |-> "service-template", options |-> 4, correct |-> 0]]

generateStructuredFallback(prompt) ==
    IF prompt = "study plan" THEN Arr(generateFallbackStudyPlan(Undefined))
    ELSE IF prompt = "quiz" THEN Arr(generateFallbackQuiz(Undefined))
    ELSE Txt(Prose)

Attempt(p, r) == [p |-> p, ok |-> r.success]
TemplateEvent == [p |-> "template", ok |-> TRUE]

\* generate with the return after a successful Groq attempt left out
generateNoEarlyReturn(prompt, provider, g, m) ==
    LET tryGroq == provider \in {"groq", "auto"}
        groq == generateWithGroq(g)
        logG == IF tryGroq THEN <<Attempt("groq", groq)>> ELSE <<>>
        tryGemini == provider \in {"gemini", "auto"}
        gemini == generateWithGemini(m)
        logM == IF tryGemini THEN Append(logG, Attempt("gemini", gemini)) ELSE logG
    IN  IF tryGemini /\ gemini.success THEN [result |-> gemini, log |-> logM]
        ELSE IF tryGroq /\ groq.success THEN [result |-> groq, log |-> logM]
        ELSE [result |-> [success |-> TRUE,
                          content |-> generateStructuredFallback(prompt),
                          fallback |-> TRUE, error |-> ""],
              log |-> logM \o <<TemplateEvent>>]

\* generate handing back the last failed result instead of the template
generateSurfacesFailure(prompt, provider, g, m) ==
    LET tryGroq == provider \in {"groq", "auto"}
        groq == generateWithGroq(g)
        logG == IF tryGroq THEN <<Attempt("groq", groq)>> ELSE <<>>
        tryGemini == provider \in {"gemini", "auto"}
        gemini == generateWithGemini(m)
    IN  IF tryGroq /\ groq.success THEN [result |-> groq, log |-> logG]
        ELSE IF tryGemini
             THEN [result |-> gemini, log |-> Append(logG, Attempt("gemini", gemini))]
        ELSE IF tryGroq THEN [result |-> groq, log |-> logG]
        ELSE [result |-> [success |-> TRUE,
                          content |-> generateStructuredFallback(prompt),
                          fallback |-> TRUE, error |-> ""],
              log |-> <<TemplateEvent>>]

\* generate(prompt, provider): the result and the attempts made, in order
generate(prompt, provider, g, m) ==
    LET tryGroq == provider \in {"groq", "auto"}
        groq == generateWithGroq(g)
        logG == IF tryGroq THEN <<Attempt("groq", groq)>> ELSE <<>>
        tryGemini == provider \in {"gemini", "auto"}
        gemini == generateWithGemini(m)
    IN  IF tryGroq /\ groq.success THEN [result |-> groq, log |-> logG]
        ELSE IF tryGemini /\ gemini.success
             THEN [result |-> gemini, log |-> Append(logG, Attempt("gemini", gemini))]
        ELSE [result |-> [success |-> TRUE,
                          content |-> generateStructuredFallback(prompt),
                          fallback |-> TRUE, error |-> ""],
              log |-> (IF tryGemini THEN Append(logG, Attempt("gemini", gemini))
                       ELSE logG) \o <<TemplateEvent>>]

\* a duration string, as far as parseDuration looks at it: the integer
\* parseInt finds at its start (NaN if none) and the first of the keywords
\* month, week, day it includes ("none" if it includes none of them)
NaN == -1
DurationStr(lead, unit) == [js |-> "string", lead |-> lead, unit |-> unit]
Durations ==
    {Undefined} \cup {DurationStr(lead, unit) :
                        lead \in {NaN} \cup (0..MaxLead),
                        unit \in {"month", "week", "day", "none"}}

\* x || dflt for the result of parseInt: NaN and 0 are falsy
OrElse(x, dflt) == IF x = NaN \/ x = 0 THEN dflt ELSE x

\* a string seen character by character, for what parseDuration does with
\* it: toLowerCase, includes and parseInt
Chars(chars) == [js |-> "string", chars |-> chars]

UpperCase == <<"M", "O", "N", "T", "H", "W", "E", "K", "D", "A", "Y", "S">>
LowerCase == <<"m", "o", "n", "t", "h", "w", "e", "k", "d", "a", "y", "s">>

\* a string left in the case it came in
KeepCase(chars) == chars

\* String.prototype.toLowerCase
toLowerCase(chars) ==
    [i \in 1..Len(chars) |->
        IF \E k \in 1..Len(UpperCase) : UpperCase[k] = chars[i]
        THEN LowerCase[CHOOSE k \in 1..Len(UpperCase) : UpperCase[k] = chars[i]]
        ELSE chars[i]]

\* String.prototype.includes
includes(chars, word) ==
    \E i \in 0..(Len(chars) - Len(word)) : SubSeq(chars, i + 1, i + Len(word)) = word

IsDigit(ch) == \E d \in 0..9 : ToString(d) = ch
DigitValue(ch) == CHOOSE d \in 0..9 : ToString(d) = ch

RECURSIVE DecimalValue(_)
DecimalValue(digits) ==
    IF digits = <<>> THEN 0
    ELSE 10 * DecimalValue(SubSeq(digits, 1, Len(digits) - 1)) + DigitValue(digits[Len(digits)])

\* parseInt(string): white space is skipped, then the digits up to the first
\* other character are read in base 10; NaN if there is no digit there
parseInt(chars) ==
    LET start == CHOOSE i \in 1..(Len(chars) + 1) :
                    /\ \A j \in 1..(i - 1) : chars[j] = " "
                    /\ i <= Len(chars) => chars[i] # " "
        end == CHOOSE i \in (start - 1)..Len(chars) :
                    /\ \A j \in start..i : IsDigit(chars[j])
                    /\ i < Len(chars) => ~IsDigit(chars[i + 1])
    IN  IF end < start THEN NaN ELSE DecimalValue(SubSeq(chars, start, end))

Month == <<"m", "o", "n", "t", "h">>
Week == <<"w", "e", "e", "k">>
Day == <<"d", "a", "y">>

\* the duration parseDuration sees in a string: parseInt of it and the first
\* of the keywords its lower-case form includes
DurationOf(duration) ==
    IF duration = Undefined THEN Undefined
    ELSE LET str == toLowerCase(duration.chars)
         IN  DurationStr(parseInt(duration.chars),
                         IF includes(str, Month) THEN "month"
                         ELSE IF includes(str, Week) THEN "week"
                         ELSE IF includes(str, Day) THEN "day"
                         ELSE "none")

AIService_parseDuration(duration) ==
    IF duration = Undefined THEN 30
    ELSE IF duration.unit = "month" THEN OrElse(duration.lead, 1) * 30
    ELSE IF duration.unit = "week" THEN OrElse(duration.lead, 1) * 7
    ELSE IF duration.unit = "day" THEN OrElse(duration.lead, 30)
    ELSE OrElse(duration.lead, 30)

generateDetailedStudyPlan(duration, g, m) ==
    LET durationInDays == AIService_parseDuration(duration)
        r == generate("study plan", "auto", g, m)
    IN  IF r.result.success /\ ~r.result.fallback THEN r
        ELSE [result |-> Success(Arr(generateFallbackStudyPlan(Num(durationInDays)))),
              log |-> Append(r.log, [p |-> "plan-template", ok |-> TRUE])]

generateQuizQuestions(count, g, m) ==
    LET r == generate("quiz", "gemini", g, m)
    IN  IF r.result.success /\ ~r.result.fallback THEN r
        ELSE [result |-> Success(Arr(generateFallbackQuiz(count))),
              log |-> Append(r.log, [p |-> "quiz-template", ok |-> TRUE])]

----------------------------------------------------------------------------
(* The AI service called on its own *)

NoCall == [fn |-> "none"]
NoResult == [success |-> FALSE, content |-> Undefined, fallback |-> FALSE, error |-> "none"]
Counts == 1..MaxItems

\* the invocations of the service: the method and its arguments, with what
\* each provider will do when asked
ServiceCalls ==
    {[fn |-> "generate", prompt |-> prompt, provider |-> provider, g |-> g, m |-> m] :
        prompt \in Prompts, provider \in Providers, g \in GroqEnv, m \in GeminiEnv}
    \cup {[fn |-> "generateQuizQuestions", count |-> count, g |-> g, m |-> m] :
        count \in Counts, g \in GroqEnv, m \in GeminiEnv}
    \cup {[fn |-> "generateDetailedStudyPlan", duration |-> duration, g |-> g, m |-> m] :
        duration \in Durations, g \in GroqEnv, m \in GeminiEnv}

InitAI ==
    /\ aiCall = NoCall
    /\ aiResult = NoResult
    /\ aiLog = <<>>

Returned(r) ==
    /\ aiResult = NoResult
    /\ aiResult' = r.result
    /\ aiLog' = r.log
    /\ UNCHANGED <<aiCall, httpVars, dbVars, sockets, boot, inflight, study>>

CallGenerate ==
    /\ aiCall.fn = "generate"
    /\ Returned(generate(aiCall.prompt, aiCall.provider, aiCall.g, aiCall.m))

CallGenerateQuizQuestions ==
    /\ aiCall.fn = "generateQuizQuestions"
    /\ Returned(generateQuizQuestions(Num(aiCall.count), aiCall.g, aiCall.m))

CallGenerateDetailedStudyPlan ==
    /\ aiCall.fn = "generateDetailedStudyPlan"
    /\ Returned(generateDetailedStudyPlan(aiCall.duration, aiCall.g, aiCall.m))

----------------------------------------------------------------------------
(* middleware/auth.js and the routers *)

Users == {"u1", "u2"}          \* users in the User collection
DeletedUsers == {"u0"}         \* users whose document is gone, tokens still out

Tokens ==
    {[kind |-> "none"], [kind |-> "malformed"]}
        \cup {[kind |-> k, user |-> u] : k \in {"expired", "valid"},
                                          u \in Users \cup DeletedUsers}

Resp(status, body) == [status |-> status, body |-> body]
Reject(msg) == [next |-> FALSE, resp |-> Resp(401, [message |-> msg]), userId |-> Undefined]
Accept(id) == [next |-> TRUE, resp |-> Resp(0, [message |-> ""]), userId |-> id]

\* authenticate without the check that the user was found
authenticateNoUserCheck(token, findThrows) ==
    IF token.kind = "none" THEN Reject("Access denied. No token provided.")
    ELSE IF token.kind = "malformed" THEN Reject("Invalid token.")
    ELSE IF token.kind = "expired" THEN Reject("Token expired.")
    ELSE IF findThrows THEN Reject("Invalid token.")
    ELSE Accept(ObjectId(token.user))

\* authenticate(req, res, next): a 401, or req.userId set and next() called
authenticate(token, findThrows) ==
    IF token.kind = "none" THEN Reject("Access denied. No token provided.")
    ELSE IF token.kind = "malformed" THEN Reject("Invalid token.")
    ELSE IF token.kind = "expired" THEN Reject("Token expired.")
    ELSE IF findThrows THEN Reject("Invalid token.")
    ELSE IF token.user \notin Users THEN Reject("Invalid token.")
    ELSE Accept(ObjectId(token.user))

\* the routers: each route, the router that mounts it and whether
\* router.use(auth) stands before it
StudyRoutes ==
    {"POST /api/study/plans", "POST /api/study/quizzes", "POST /api/study/quiz-attempts",
     "GET /api/study/plans", "PUT /api/study/plans/:id",
     "PUT /api/study/plans/:planId/topics/:topicId",
     "GET /api/study/plans/:planId/topics/:topicId/content",
     "POST /api/study/progress/start", "POST /api/study/progress/end",
     "POST /api/study/progress/section"}
UploadRoutes == {"POST /api/upload/syllabus"}
AiRoutes == {"GET /api/ai/agents"}
GroupRoutes ==
    {"POST /api/study-groups", "POST /api/study-groups/:id/join",
     "DELETE /api/study-groups/:id", "POST /api/study-groups/:id/leave",
     "PUT /api/study-groups/:id", "POST /api/study-groups/:id/chat"}
SessionRoutes ==
    {"POST /api/study-groups/:id/sessions/:sessionId/end",
     "POST /api/study-groups/:id/sessions"}
AttendRoutes ==
    {"POST /api/study-groups/:id/sessions/:sessionId/join",
     "POST /api/study-groups/sessions/join-by-code"}
PublicRoutes == {"GET /api/health"}
Guarded(route) ==
    route \in StudyRoutes \cup UploadRoutes \cup AiRoutes \cup GroupRoutes \cup SessionRoutes
                \cup AttendRoutes

\* router.post(path, controller.method) hands Express the bare function:
\* Express calls it with no receiver, and in a class body this is undefined
RouteThis == Undefined

NoReq == [route |-> "none"]

InitHttp ==
    /\ req = NoReq
    /\ pc = "idle"
    /\ reqUserId = Undefined
    /\ resps = <<>>
    /\ handlerRuns = 0
    /\ caught = ""

\* a client sends a request
Send(request) ==
    /\ pc = "idle"
    /\ boot.pc = "listening"
    /\ req' = request
    /\ pc' = IF Guarded(request.route) THEN "auth" ELSE "handler"
    /\ reqUserId' = Undefined
    /\ resps' = <<>>
    /\ handlerRuns' = 0
    /\ caught' = ""
    /\ aiLog' = <<>>
    /\ UNCHANGED <<aiCall, aiResult, dbVars, sockets, boot, inflight, study>>

\* the client has read the response: nothing of the request stays behind
Finish ==
    /\ pc = "done"
    /\ req' = NoReq
    /\ pc' = "idle"
    /\ reqUserId' = Undefined
    /\ resps' = <<>>
    /\ handlerRuns' = 0
    /\ caught' = ""
    /\ aiLog' = <<>>
    /\ groupsBefore' = groups
    /\ UNCHANGED <<aiCall, aiResult, plans, quizzes, groups, sockets, boot, inflight, attempts, userProgress, study>>

Authenticate ==
    /\ pc = "auth"
    /\ \E findThrows \in BOOLEAN :
         LET a == authenticate(req.token, findThrows)
         IN  /\ reqUserId' = a.userId
             /\ resps' = IF a.next THEN resps ELSE Append(resps, a.resp)
             /\ pc' = IF a.next THEN "handler" ELSE "done"
    /\ UNCHANGED <<req, handlerRuns, caught, aiVars, dbVars, sockets, boot, inflight, study>>

\* Socket.IO. A client is a browser tab that may show the video-call view of
\* a session; opening the view connects a socket and emits 'join-session-room'
Clients == {"c1", "c2"}
MaxQueue == 2      \* packets on their way to the server

Room(kind, id) == [kind |-> kind, id |-> id]
Packet(from, event, arg) == [from |-> from, event |-> event, arg |-> arg]
Emission(room, event) == [room |-> room, event |-> event]

InitSockets ==
    sockets = [view |-> [c \in Clients |-> 0],
               got |-> [c \in Clients |-> FALSE],
               inbox |-> [c \in Clients |-> {}],
               rooms |-> {},
               toServer |-> <<>>]

\* io.to(room).emit(event): the event reaches the sockets that are in the room
Emit(sk, emits) ==
    [sk EXCEPT !.inbox =
        [c \in Clients |->
            @[c] \cup {emits[i].event :
                         i \in {j \in 1..Len(emits) :
                                  [socket |-> c, room |-> emits[j].room] \in sk.rooms}}]]

\* the handler's outer catch: log, then one 500
Caught(msg, body) ==
    [resp |-> Resp(500, body), caught |-> msg, docs |-> <<>>, log |-> <<>>,
     emits |-> <<>>]
Generic == [success |-> FALSE, message |-> "Internal server error"]
Replied(status, body, docs, log) ==
    [resp |-> Resp(status, body), caught |-> "", docs |-> docs, log |-> log,
     emits |-> <<>>]

\* what every handler leaves behind: one more invocation, the request done
Handled(out) ==
    /\ resps' = Append(resps, out.resp)
    /\ caught' = out.caught
    /\ aiLog' = out.log
    /\ handlerRuns' = handlerRuns + 1
    /\ pc' = "done"
    /\ sockets' = Emit(sockets, out.emits)
    /\ UNCHANGED <<req, reqUserId, aiCall, aiResult, boot, inflight, study>>

HealthRoute ==
    /\ pc = "handler"
    /\ req.route = "GET /api/health"
    /\ Handled(Replied(200, [success |-> TRUE, message |-> "API is running"], <<>>, <<>>))
    /\ UNCHANGED dbVars

getAgents(findThrows) ==
    IF findThrows THEN Caught("find", Generic)
    ELSE Replied(200, [success |-> TRUE], <<>>, <<>>)

GetAgents ==
    /\ pc = "handler"
    /\ req.route = "GET /api/ai/agents"
    /\ \E findThrows \in BOOLEAN : Handled(getAgents(findThrows))
    /\ UNCHANGED dbVars

----------------------------------------------------------------------------
(* controllers: StudyController and uploadSyllabus *)

StudyController_parseDuration(duration) ==
    IF duration = Undefined THEN 30
    ELSE IF duration.unit = "month" THEN OrElse(duration.lead, 1) * 30
    ELSE IF duration.unit = "week" THEN OrElse(duration.lead, 1) * 7
    ELSE IF duration.unit = "day" THEN OrElse(duration.lead, 30)
    ELSE OrElse(duration.lead, 30)

IsNonEmptyArray(x) == x.js = "array" /\ Len(x.items) > 0

\* '' is the one falsy content a provider returns
Truthy(content) == ~(content.js = "string" /\ content = Txt(EmptyText))

\* the plan array createStudyPlan maps: the provider's, if it parses to a
\* non-empty array, else the template's
PlanArray(ai, durationInDays) ==
    LET raw == ai.content
        parsed == IF raw.js = "string" THEN JsonParse(raw.text)
                  ELSE [threw |-> FALSE, value |-> raw]
        planArray == IF ai.success /\ Truthy(raw) /\ ~parsed.threw
                     THEN parsed.value ELSE Arr(<<>>)
    IN  IF IsNonEmptyArray(planArray) THEN planArray.items
        ELSE generateFallbackStudyPlan(Num(durationInDays))

createStudyPlan(this, body, userId, g, m, saveThrows) ==
    IF this = Undefined
    THEN Caught("Cannot read properties of undefined (reading 'parseDuration')", Generic)
    ELSE
      LET durationInDays == StudyController_parseDuration(body.duration)
          ai == generateDetailedStudyPlan(body.duration, g, m)
          planArray == PlanArray(ai.result, durationInDays)
          dailyContent == [i \in 1..Len(planArray) |-> planArray[i].day]
          studyPlan == [user |-> userId, dailyContent |-> dailyContent]
      IN  IF saveThrows THEN [Caught("save", Generic) EXCEPT !.log = ai.log]
          ELSE Replied(201, [success |-> TRUE, message |-> "Study plan created successfully"],
                       <<studyPlan>>, ai.log)

\* jsonContent.match(/\[[\s\S]*\]/): the bracketed part of the text, if any
MatchArray(t) == IF t.json = "array" THEN Text(FALSE, "array", t.n) ELSE t

\* the questions createQuiz parses out of the response, Null if it cannot:
\* content that is no string has no match method, and the inner catch
\* takes that TypeError like a SyntaxError
ParsedQuestions(ai) ==
    IF ~ai.success THEN Null
    ELSE IF ai.content.js # "string" THEN Null
    ELSE LET parsed == JsonParse(MatchArray(ai.content.text))
         IN  IF parsed.threw \/ ~IsNonEmptyArray(parsed.value) THEN Null
             ELSE parsed.value

generateFallbackQuestions(count) ==
    [i \in 1..count |-> [src |-> "controller-template", options |-> 4, correct |-> 0]]

DefaultQuestionCount == 10

createQuiz(this, body, userId, g, m, saveThrows) ==
    LET questionCount == IF body.questionCount = Undefined THEN DefaultQuestionCount
                         ELSE body.questionCount.n
        ai == generateQuizQuestions(Num(questionCount), g, m)
        parsed == ParsedQuestions(ai.result)
        log == IF parsed = Null
               THEN Append(ai.log, [p |-> "fallback-questions", ok |-> TRUE])
               ELSE ai.log
        Fail(msg) == [Caught(msg, [success |-> FALSE,
                                   message |-> "Internal server error: " \o msg])
                        EXCEPT !.log = log]
        questions == IF parsed = Null THEN generateFallbackQuestions(questionCount)
                     ELSE parsed.items
        quiz == [creator |-> userId, questions |-> questions,
                 isPublic |-> body.isPublic, aiGenerated |-> ai.result.success]
    IN  IF parsed = Null /\ this = Undefined
        THEN Fail("Cannot read properties of undefined (reading 'generateFallbackQuestions')")
        ELSE IF ~body.isPublic /\ this = Undefined
        THEN Fail("Cannot read properties of undefined (reading 'generateUniqueCode')")
        ELSE IF saveThrows THEN Fail("save")
        ELSE Replied(201, [success |-> TRUE, message |-> "Quiz created successfully"],
                     <<quiz>>, log)

\* the provider chain of uploadSyllabus: each later call is made only if the
\* response so far has success false
UploadChain(g, m) ==
    LET r1 == generate("study plan", "huggingface", g, m)
        r2 == IF ~r1.result.success
              THEN LET r == generate("study plan", "groq", g, m)
                   IN  [result |-> r.result, log |-> r1.log \o r.log]
              ELSE r1
        r3 == IF ~r2.result.success
              THEN LET r == generate("study plan", "gemini", g, m)
                   IN  [result |-> r.result, log |-> r2.log \o r.log]
              ELSE r2
    IN  IF ~r3.result.success
        THEN [result |-> Success(Txt(Prose)),
              log |-> Append(r3.log, [p |-> "static-plan", ok |-> TRUE])]
        ELSE r3

\* the inline duration arithmetic of uploadSyllabus: NaN * 30 stays NaN, and
\* a NaN estimatedDuration is one the Number path refuses at save
UploadDuration(duration) ==
    IF duration.unit = "month"
    THEN (IF duration.lead = NaN THEN NaN ELSE duration.lead * 30)
    ELSE IF duration.unit = "week"
    THEN (IF duration.lead = NaN THEN NaN ELSE duration.lead * 7)
    ELSE OrElse(duration.lead, 30)

uploadSyllabus(body, files, userId, g, m, saveThrows) ==
    IF files = 0
    THEN Replied(400, [success |-> FALSE, message |-> "No files uploaded"], <<>>, <<>>)
    ELSE
      LET ai == UploadChain(g, m)
          durationInDays == UploadDuration(body.duration)
          studyPlan == [user |-> userId, dailyContent |-> <<>>]
      IN  IF body.duration = Undefined
          THEN [Caught("Cannot read properties of undefined (reading 'includes')", Generic)
                  EXCEPT !.log = ai.log]
          ELSE IF saveThrows \/ durationInDays = NaN
          THEN [Caught("save", Generic) EXCEPT !.log = ai.log]
          ELSE Replied(200, [success |-> TRUE, message |-> "Study plan generated successfully"],
                       <<studyPlan>>, ai.log)

\* new QuizAttempt(fields) under the schema of models/QuizAttempt.js: strict
\* mode keeps the paths the schema declares (userId, quizId and results are
\* none of them), and a declared path nobody gave stays undefined
QuizAttemptDoc(fields) ==
    [user |-> Undefined, quiz |-> Undefined,
     answers |-> fields.answers, score |-> fields.score,
     totalQuestions |-> Undefined, attemptNumber |-> Undefined]

\* validation at save: user, quiz, totalQuestions and attemptNumber are
\* required, and each element of answers is a subdocument with a required
\* questionId, which a bare number is not
QuizAttemptValid(doc) ==
    /\ doc.user # Undefined
    /\ doc.quiz # Undefined
    /\ doc.totalQuestions # Undefined
    /\ doc.attemptNumber # Undefined
    /\ \A i \in 1..Len(doc.answers) : doc.answers[i].js = "object"

\* answers[i] === question.correct, answers[i] undefined past the end
IsCorrect(answers, question, i) ==
    StrictNum(IF i <= Len(answers) THEN answers[i] ELSE Undefined, question.correct)

\* (correctAnswers / quiz.questions.length) * 100, kept as the fraction
Score(correctAnswers, length) == [times100 |-> correctAnswers, of |-> length]

submitQuizAttempt(body, userId, quizColl, saveThrows) ==
    IF body.quizId \notin 1..Len(quizColl)
    THEN Replied(404, [success |-> FALSE, message |-> "Quiz not found"], <<>>, <<>>)
    ELSE IF body.answers = Undefined
    THEN Caught("Cannot read properties of undefined (reading '0')", Generic)
    ELSE
      LET quiz == quizColl[body.quizId]
          answers == body.answers.items
          correctAnswers ==
              Cardinality({i \in 1..Len(quiz.questions) :
                              IsCorrect(answers, quiz.questions[i], i)})
          score == Score(correctAnswers, Len(quiz.questions))
          quizAttempt == QuizAttemptDoc([userId |-> userId, quizId |-> body.quizId,
                                         answers |-> answers, score |-> score])
      IN  IF saveThrows THEN Caught("save", Generic)
          ELSE IF ~QuizAttemptValid(quizAttempt)
          THEN Caught("QuizAttempt validation failed", Generic)
          ELSE Replied(200, [success |-> TRUE, message |-> "Quiz submitted successfully",
                             score |-> score, correctAnswers |-> correctAnswers,
                             totalQuestions |-> Len(quiz.questions)],
                       <<quizAttempt>>, <<>>)

SubmitQuizAttempt ==
    /\ pc = "handler"
    /\ req.route = "POST /api/study/quiz-attempts"
    /\ \E saveThrows \in BOOLEAN :
         LET out == submitQuizAttempt(req.body, reqUserId, quizzes, saveThrows)
         IN  /\ Handled(out)
             /\ attempts' = attempts \o out.docs
    /\ UNCHANGED <<plans, quizzes, groups, groupsBefore, userProgress>>

\* the handlers that read and change the caller's study plans. A plan's _id
\* is its place in the collection.
PlanOut(out, coll) == [out |-> out, plans |-> coll]

\* a query {user: req.userId} casts the value to the type of the path
QueryEq(stored, given) == toString(stored) = toString(given)

\* a string casts to an ObjectId when it is the hex string of one
CastsToObjectId(v) == v.js = "string" /\ v.s \in Users \cup DeletedUsers

\* StudyPlan.findOne({_id: id, user: userId}): the plan's place, 0 if none
FindOnePlan(coll, id, userId) ==
    IF id \in 1..Len(coll) /\ QueryEq(coll[id].user, userId) THEN id ELSE 0

Reverse(seq) == [i \in 1..Len(seq) |-> seq[Len(seq) + 1 - i]]

\* StudyPlan.find({user: req.userId}).sort({createdAt: -1})
getStudyPlans(userId, coll, findThrows) ==
    LET studyPlans == Reverse(SelectSeq(coll, LAMBDA plan : QueryEq(plan.user, userId)))
    IN  IF findThrows THEN PlanOut(Caught("find", Generic), coll)
        ELSE PlanOut(Replied(200, [success |-> TRUE, studyPlans |-> studyPlans],
                             <<>>, <<>>), coll)

\* the update document {$set: req.body} cast to the schema: every path of
\* the schema that the body names is written, user among them
ApplyPlanUpdates(studyPlan, updates) ==
    [studyPlan EXCEPT
        !.user = IF updates.user = Undefined THEN @ ELSE ObjectId(updates.user.s),
        !.title = IF updates.title = Undefined THEN @ ELSE updates.title]

updateStudyPlan(id, updates, userId, coll, updateThrows) ==
    LET found == FindOnePlan(coll, id, userId)
    IN  IF updateThrows \/ (updates.user # Undefined /\ ~CastsToObjectId(updates.user))
        THEN PlanOut(Caught("findOneAndUpdate", Generic), coll)
        ELSE IF found = 0
        THEN PlanOut(Replied(404, [success |-> FALSE, message |-> "Study plan not found"],
                             <<>>, <<>>), coll)
        ELSE PlanOut(Replied(200, [success |-> TRUE,
                                   message |-> "Study plan updated successfully"],
                             <<>>, <<>>),
                     [coll EXCEPT ![found] = ApplyPlanUpdates(@, updates)])

TopicStatuses == {"not_started", "in_progress", "completed", "skipped"}

\* studyPlan.topics.id(topicId): the topic's place, 0 if none
TopicById(topics, topicId) ==
    IF \E i \in 1..Len(topics) : topics[i].id = topicId
    THEN CHOOSE i \in 1..Len(topics) : topics[i].id = topicId
    ELSE 0

\* JavaScript numbers are IEEE 754 doubles: c / t is rounded to 53 significant
\* bits, the product with 100 is rounded again, and Math.round takes the
\* nearest integer of that double, halves upwards.
MantissaBits == 53

\* numbers wider than the model's integers are kept in limbs of LimbBits bits
LimbBits == 16

LimbBase == 2 ^ LimbBits

\* 2^i modulo t
RECURSIVE Pow2Mod(_, _)
Pow2Mod(i, t) ==
    IF i < LimbBits THEN (2 ^ i) % t
    ELSE (Pow2Mod(i \div 2, t) * Pow2Mod(i - (i \div 2), t)) % t

\* what is left of c/t after i binary digits, c < t
QuotientRest(c, t, i) == (c * Pow2Mod(i, t)) % t

\* the i-th binary digit of c/t after the point, i >= 1
QuotientBit(c, t, i) == (2 * QuotientRest(c, t, i - 1)) \div t

\* the zeros of c/t between the point and its first 1
LeadingZeros(c, t) == CHOOSE z \in 0..LimbBits : c * 2 ^ (z + 1) >= t /\ c * 2 ^ z < t

\* the number written by bits, least significant first
RECURSIVE BitsToInt(_)
BitsToInt(bits) ==
    IF Len(bits) = 0 THEN 0
    ELSE IF Len(bits) = 1 THEN bits[1]
    ELSE LET h == Len(bits) \div 2
         IN  BitsToInt(SubSeq(bits, 1, h)) + (2 ^ h) * BitsToInt(SubSeq(bits, h + 1, Len(bits)))

\* bits + 1, least significant first; one bit longer when every bit was 1
Increment(bits) ==
    LET carry(i) == \A j \in 1..(i - 1) : bits[j] = 1
    IN  [i \in 1..(Len(bits) + (IF carry(Len(bits) + 1) THEN 1 ELSE 0)) |->
            IF i > Len(bits) THEN 1
            ELSE IF carry(i) THEN 1 - bits[i] ELSE bits[i]]

\* round to nearest, ties to even: bits is least significant first, up says
\* whether the dropped part is above half (2), half (1) or below (0); dropped
\* counts the weight of the last kept bit
RoundBits(bits, dropped, up) ==
    LET odd == bits[1] = 1
        inc == up = 2 \/ (up = 1 /\ odd)
        sum == Increment(bits)
    IN  IF ~inc THEN [bits |-> bits, dropped |-> dropped]
        ELSE IF Len(sum) > Len(bits)
        THEN [bits |-> SubSeq(sum, 2, Len(sum)), dropped |-> dropped + 1]
        ELSE [bits |-> sum, dropped |-> dropped]

\* 100 * m for m written in bits, least significant first, without leading zeros
TimesHundred(m) ==
    LET limb(k) == BitsToInt(SubSeq(m, LimbBits * k + 1,
                                    IF LimbBits * (k + 1) < Len(m) THEN LimbBits * (k + 1)
                                    ELSE Len(m)))
        p0 == 100 * limb(0)
        p1 == 100 * limb(1) + (p0 \div LimbBase)
        p2 == 100 * limb(2) + (p1 \div LimbBase)
        p3 == 100 * limb(3) + (p2 \div LimbBase)
        out == <<p0 % LimbBase, p1 % LimbBase, p2 % LimbBase, p3>>
        bit(i) == (out[(i \div LimbBits) + 1] \div (2 ^ (i % LimbBits))) % 2
        len == IF bit(Len(m) + 6) = 1 THEN Len(m) + 7 ELSE Len(m) + 6
    IN  [i \in 1..len |-> bit(i - 1)]

\* Math.round((c / t) * 100) in IEEE 754 double precision, 0 < c < t
RoundedPercent(c, t) ==
    LET z == LeadingZeros(c, t)
        rest == QuotientRest(c, t, z + MantissaBits)
        q == RoundBits([i \in 1..MantissaBits |-> QuotientBit(c, t, z + MantissaBits + 1 - i)],
                       0, IF 2 * rest > t THEN 2 ELSE IF 2 * rest = t THEN 1 ELSE 0)
        \* c / t rounds to q.bits * 2^(q.dropped - z - 53)
        product == TimesHundred(q.bits)
        k == Len(product) - MantissaBits
        p == RoundBits(SubSeq(product, k + 1, Len(product)), k,
                       IF product[k] = 0 THEN 0
                       ELSE IF \E i \in 1..(k - 1) : product[i] = 1 THEN 2 ELSE 1)
        \* the product rounds to p.bits * 2^(p.dropped + q.dropped - z - 53):
        \* n bits of it lie before the point
        n == p.dropped + q.dropped - z
        whole == BitsToInt(SubSeq(p.bits, MantissaBits + 1 - n, MantissaBits))
        half == p.bits[MantissaBits - n]
    IN  whole + half

Percentage(completedTopics, totalTopics) ==
    IF totalTopics > 0
    THEN IF completedTopics = 0 THEN 0
         ELSE IF completedTopics = totalTopics THEN 100
         ELSE RoundedPercent(completedTopics, totalTopics)
    ELSE 0

\* studyPlanSchema.methods.updateProgress, before its save()
updateProgress(studyPlan) ==
    LET completedTopics ==
            Len(SelectSeq(studyPlan.topics, LAMBDA topic : topic.status = Str("completed")))
        totalTopics == Len(studyPlan.topics)
    IN  [studyPlan EXCEPT !.progress =
            [completedTopics |-> completedTopics, totalTopics |-> totalTopics,
             percentage |-> Percentage(completedTopics, totalTopics)]]

updateTopicStatus(planId, topicId, body, userId, coll, findThrows, saveThrows) ==
    LET found == FindOnePlan(coll, planId, userId)
        studyPlan == coll[found]
        topic == TopicById(studyPlan.topics, topicId)
        changed == [studyPlan EXCEPT
                      !.topics[topic].status = body.status,
                      !.topics[topic].completed = @ \/ body.status = Str("completed")]
        valid == body.status.js = "string" /\ body.status.s \in TopicStatuses
    IN  IF findThrows THEN PlanOut(Caught("findOne", Generic), coll)
        ELSE IF found = 0
        THEN PlanOut(Replied(404, [success |-> FALSE, message |-> "Study plan not found"],
                             <<>>, <<>>), coll)
        ELSE IF topic = 0
        THEN PlanOut(Replied(404, [success |-> FALSE, message |-> "Topic not found"],
                             <<>>, <<>>), coll)
        ELSE IF saveThrows \/ ~valid THEN PlanOut(Caught("save", Generic), coll)
        ELSE PlanOut(Replied(200, [success |-> TRUE,
                                   message |-> "Topic status updated successfully"],
                             <<>>, <<>>),
                     [coll EXCEPT ![found] = updateProgress(changed)])

\* parseInt(topicId) || 1 for the ids the model sends
ParseTopicDay(topicId) ==
    IF \E d \in 1..9 : ToString(d) = topicId THEN CHOOSE d \in 1..9 : ToString(d) = topicId
    ELSE 1

getStudyContent(planId, topicId, userId, coll, findThrows) ==
    LET found == FindOnePlan(coll, planId, userId)
        studyPlan == coll[found]
        byDay == {i \in 1..Len(studyPlan.dailyContent) :
                     ToString(studyPlan.dailyContent[i]) = topicId}
        topic == TopicById(studyPlan.topics, topicId)
    IN  IF findThrows THEN PlanOut(Caught("findOne", Generic), coll)
        ELSE IF found = 0
        THEN PlanOut(Replied(404, [success |-> FALSE, message |-> "Study plan not found"],
                             <<>>, <<>>), coll)
        ELSE IF byDay # {}
        THEN PlanOut(Replied(200, [success |-> TRUE,
                                   content |-> [day |-> ParseTopicDay(topicId),
                                                plan |-> found]],
                             <<>>, <<>>), coll)
        ELSE IF topic # 0
        THEN PlanOut(Replied(200, [success |-> TRUE,
                                   content |-> [day |-> ParseTopicDay(topicId),
                                                plan |-> found]],
                             <<>>, <<>>), coll)
        ELSE PlanOut(Replied(404, [success |-> FALSE, message |-> "Study content not found"],
                             <<>>, <<>>), coll)

PlanHandled(o) ==
    /\ Handled(o.out)
    /\ plans' = o.plans
    /\ UNCHANGED <<quizzes, groups, groupsBefore, attempts, userProgress>>

GetStudyPlans ==
    /\ pc = "handler"
    /\ req.route = "GET /api/study/plans"
    /\ \E findThrows \in BOOLEAN : PlanHandled(getStudyPlans(reqUserId, plans, findThrows))

UpdateStudyPlan ==
    /\ pc = "handler"
    /\ req.route = "PUT /api/study/plans/:id"
    /\ \E updateThrows \in BOOLEAN :
         PlanHandled(updateStudyPlan(req.id, req.body, reqUserId, plans, updateThrows))

UpdateTopicStatus ==
    /\ pc = "handler"
    /\ req.route = "PUT /api/study/plans/:planId/topics/:topicId"
    /\ \E findThrows \in BOOLEAN, saveThrows \in BOOLEAN :
         PlanHandled(updateTopicStatus(req.id, req.topicId, req.body, reqUserId, plans,
                                       findThrows, saveThrows))

GetStudyContent ==
    /\ pc = "handler"
    /\ req.route = "GET /api/study/plans/:planId/topics/:topicId/content"
    /\ \E findThrows \in BOOLEAN :
         PlanHandled(getStudyContent(req.id, req.topicId, reqUserId, plans, findThrows))

\* the progress handlers of the study controller. The _id of a UserProgress
\* document is its place in the collection, written as one digit; a
\* sessionId is the string `${progress._id}-${sessionIndex}`
ProgressOut(out, coll) == [out |-> out, userProgress |-> coll]

StudySessionDoc == [ended |-> FALSE, completed |-> FALSE, sections |-> {}]

\* progress.startStudySession(): one more study session, saved
UserProgress_startStudySession(progress) ==
    [progress EXCEPT !.studySessions = Append(@, StudySessionDoc)]

\* progress.endStudySession(sessionIndex, completed): the session at that
\* index is ended, saved
UserProgress_endStudySession(progress, sessionIndex, completed) ==
    [progress EXCEPT !.studySessions[sessionIndex + 1] =
        [@ EXCEPT !.ended = TRUE, !.completed = completed]]

\* progress.markSectionComplete(sessionIndex, sectionName, timeSpent)
UserProgress_markSectionComplete(progress, sessionIndex, sectionName) ==
    [progress EXCEPT !.studySessions[sessionIndex + 1].sections = @ \cup {sectionName}]

SessionIdOf(id, sessionIndex) == Chars(<<ToString(id), "-", ToString(sessionIndex)>>)

\* const [progressId, sessionIndex] = sessionId.split('-')
SplitSessionId(chars) ==
    LET dashes == {i \in 1..Len(chars) : chars[i] = "-"}
        first == IF dashes = {} THEN Len(chars) + 1
                 ELSE CHOOSE i \in dashes : \A j \in dashes : i <= j
        later == {i \in dashes : i > first}
        second == IF later = {} THEN Len(chars) + 1
                  ELSE CHOOSE i \in later : \A j \in later : i <= j
    IN  [progressId |-> SubSeq(chars, 1, first - 1),
         sessionIndex |-> IF dashes = {} THEN NaN
                          ELSE parseInt(SubSeq(chars, first + 1, second - 1))]

\* UserProgress.findById(progressId): the document with that _id, 0 if there
\* is none, NaN if the string does not cast to an ObjectId
FindProgressById(coll, progressId) ==
    IF Len(progressId) = 1 /\ IsDigit(progressId[1]) /\ DigitValue(progressId[1]) >= 1
    THEN (IF DigitValue(progressId[1]) <= Len(coll) THEN DigitValue(progressId[1]) ELSE 0)
    ELSE NaN

StudyController_startStudySession(body, userId, coll, findThrows, saveThrows) ==
    LET matches == {i \in 1..Len(coll) :
                       /\ coll[i].user = userId
                       /\ coll[i].studyPlan = body.studyPlanId
                       /\ coll[i].topic = body.topicId}
        found == IF matches = {} THEN 0 ELSE CHOOSE i \in matches : TRUE
        progress == IF found = 0
                    THEN [user |-> userId, studyPlan |-> body.studyPlanId,
                          topic |-> body.topicId, studySessions |-> <<>>]
                    ELSE coll[found]
        saved == UserProgress_startStudySession(progress)
        id == IF found = 0 THEN Len(coll) + 1 ELSE found
        sessionIndex == Len(saved.studySessions) - 1
    IN  IF findThrows \/ saveThrows THEN ProgressOut(Caught("startStudySession", Generic), coll)
        ELSE ProgressOut(Replied(200, [success |-> TRUE,
                                       sessionId |-> SessionIdOf(id, sessionIndex),
                                       message |-> "Study session started"], <<>>, <<>>),
                         IF found = 0 THEN Append(coll, saved)
                         ELSE [coll EXCEPT ![found] = saved])

\* endStudySession and trackSectionCompletion up to the call of the
\* document's method: the response sent before it, or none
FoundProgress(body, userId, coll, findThrows) ==
    LET parts == SplitSessionId(body.sessionId.chars)
        found == FindProgressById(coll, parts.progressId)
    IN  IF body.sessionId = Undefined \/ findThrows \/ found = NaN
        THEN [found |-> 0, out |-> Caught("findById", Generic)]
        ELSE IF found = 0
        THEN [found |-> 0,
              out |-> Replied(404, [success |-> FALSE, message |-> "Progress record not found"],
                              <<>>, <<>>)]
        ELSE [found |-> found, sessionIndex |-> parts.sessionIndex]

HasSession(progress, sessionIndex) ==
    sessionIndex # NaN /\ sessionIndex < Len(progress.studySessions)

StudyController_endStudySession(body, userId, coll, findThrows, saveThrows) ==
    LET f == FoundProgress(body, userId, coll, findThrows)
    IN  IF f.found = 0 THEN ProgressOut(f.out, coll)
        ELSE IF saveThrows \/ ~HasSession(coll[f.found], f.sessionIndex)
        THEN ProgressOut(Caught("endStudySession", Generic), coll)
        ELSE ProgressOut(Replied(200, [success |-> TRUE, message |-> "Study session ended"],
                                 <<>>, <<>>),
                         [coll EXCEPT ![f.found] =
                             UserProgress_endStudySession(@, f.sessionIndex, body.completed)])

StudyController_trackSectionCompletion(body, userId, coll, findThrows, saveThrows) ==
    LET f == FoundProgress(body, userId, coll, findThrows)
    IN  IF f.found = 0 THEN ProgressOut(f.out, coll)
        ELSE IF saveThrows \/ ~HasSession(coll[f.found], f.sessionIndex)
        THEN ProgressOut(Caught("markSectionComplete", Generic), coll)
        ELSE ProgressOut(Replied(200, [success |-> TRUE,
                                       message |-> "Section completion tracked"],
                                 <<>>, <<>>),
                         [coll EXCEPT ![f.found] =
                             UserProgress_markSectionComplete(@, f.sessionIndex,
                                                              body.sectionName)])

ProgressHandled(o) ==
    /\ Handled(o.out)
    /\ userProgress' = o.userProgress
    /\ UNCHANGED <<plans, quizzes, groups, groupsBefore, attempts>>

PostProgressStart ==
    /\ pc = "handler"
    /\ req.route = "POST /api/study/progress/start"
    /\ \E findThrows \in BOOLEAN, saveThrows \in BOOLEAN :
         ProgressHandled(StudyController_startStudySession(req.body, reqUserId, userProgress,
                                                           findThrows, saveThrows))

PostProgressEnd ==
    /\ pc = "handler"
    /\ req.route = "POST /api/study/progress/end"
    /\ \E findThrows \in BOOLEAN, saveThrows \in BOOLEAN :
         ProgressHandled(StudyController_endStudySession(req.body, reqUserId, userProgress,
                                                         findThrows, saveThrows))

PostProgressSection ==
    /\ pc = "handler"
    /\ req.route = "POST /api/study/progress/section"
    /\ \E findThrows \in BOOLEAN, saveThrows \in BOOLEAN :
         ProgressHandled(StudyController_trackSectionCompletion(req.body, reqUserId,
                                                                userProgress,
                                                                findThrows, saveThrows))

CreateStudyPlan ==
    /\ pc = "handler"
    /\ req.route = "POST /api/study/plans"
    /\ \E g \in GroqEnv, m \in GeminiEnv, saveThrows \in BOOLEAN :
         LET out == createStudyPlan(RouteThis, req.body, reqUserId, g, m, saveThrows)
         IN  /\ Handled(out)
             /\ plans' = plans \o out.docs
    /\ UNCHANGED <<quizzes, groups, groupsBefore, attempts, userProgress>>

CreateQuiz ==
    /\ pc = "handler"
    /\ req.route = "POST /api/study/quizzes"
    /\ \E g \in GroqEnv, m \in GeminiEnv, saveThrows \in BOOLEAN :
         LET out == createQuiz(RouteThis, req.body, reqUserId, g, m, saveThrows)
         IN  /\ Handled(out)
             /\ quizzes' = quizzes \o out.docs
    /\ UNCHANGED <<plans, groups, groupsBefore, attempts, userProgress>>

UploadSyllabus ==
    /\ pc = "handler"
    /\ req.route = "POST /api/upload/syllabus"
    /\ \E g \in GroqEnv, m \in GeminiEnv, saveThrows \in BOOLEAN :
         LET out == uploadSyllabus(req.body, req.files, reqUserId, g, m, saveThrows)
         IN  /\ Handled(out)
             /\ plans' = plans \o out.docs
    /\ UNCHANGED <<quizzes, groups, groupsBefore, attempts, userProgress>>

----------------------------------------------------------------------------
(* controllers/studyGroupController.js and models/StudyGroup.js *)

MaxGroups == 1
GroupIds == 1..MaxGroups
NoDoc == [exists |-> FALSE]

Member(userId, role) == [user |-> userId, role |-> role]

\* members.some(member => member.user.toString() === userId)
AlreadyMember(studyGroup, userId) ==
    \E i \in 1..Len(studyGroup.members) :
        StrictEq(toString(studyGroup.members[i].user), userId)

DefaultMaxMembers == 50
MinMaxMembers == 2

\* the outcome of a group handler: its reply and the collection it leaves
GroupOut(out, coll) == [out |-> out, groups |-> coll]

createStudyGroup(body, userId, coll, saveThrows, populateThrows) ==
    IF ~body.name \/ ~body.subject
    THEN GroupOut(Replied(400, [success |-> FALSE,
                                message |-> "Name and subject are required"], <<>>, <<>>), coll)
    ELSE
      LET maxMembers == IF body.maxMembers = Undefined \/ body.maxMembers = Num(0)
                        THEN DefaultMaxMembers ELSE body.maxMembers.n
          studyGroup == [exists |-> TRUE, creator |-> userId,
                         members |-> <<Member(userId, "admin")>>,
                         maxMembers |-> maxMembers,
                         isPrivate |-> (body.privacy = "private"),
                         sessions |-> <<>>]
          id == CHOOSE i \in GroupIds : coll[i] = NoDoc /\ \A j \in 1..(i - 1) : coll[j] # NoDoc
          saved == [coll EXCEPT ![id] = studyGroup]
      IN  IF saveThrows \/ maxMembers < MinMaxMembers
          THEN GroupOut(Caught("save", Generic), coll)
          ELSE IF populateThrows THEN GroupOut(Caught("populate", Generic), saved)
          ELSE GroupOut(Replied(201, [success |-> TRUE, message |-> ""], <<>>, <<>>), saved)

\* joinStudyGroup without the privacy check
joinIgnoresPrivacy(id, userId, coll, saveThrows, populateThrows) ==
    LET studyGroup == coll[id]
        joined == [coll EXCEPT ![id].members = Append(@, Member(userId, "member"))]
    IN  IF studyGroup = NoDoc
        THEN GroupOut(Replied(404, [success |-> FALSE,
                                    message |-> "Study group not found"], <<>>, <<>>), coll)
        ELSE IF AlreadyMember(studyGroup, userId)
        THEN GroupOut(Replied(400, [success |-> FALSE,
                                    message |-> "Already a member of this group"], <<>>, <<>>), coll)
        ELSE IF Len(studyGroup.members) >= studyGroup.maxMembers
        THEN GroupOut(Replied(400, [success |-> FALSE,
                                    message |-> "Study group is full"], <<>>, <<>>), coll)
        ELSE IF saveThrows THEN GroupOut(Caught("save", Generic), coll)
        ELSE IF populateThrows THEN GroupOut(Caught("populate", Generic), joined)
        ELSE GroupOut(Replied(200, [success |-> TRUE,
                                    message |-> "Successfully joined the study group"],
                              <<>>, <<>>), joined)

joinStudyGroup(id, userId, coll, saveThrows, populateThrows) ==
    LET studyGroup == coll[id]
        joined == [coll EXCEPT ![id].members = Append(@, Member(userId, "member"))]
    IN  IF studyGroup = NoDoc
        THEN GroupOut(Replied(404, [success |-> FALSE,
                                    message |-> "Study group not found"], <<>>, <<>>), coll)
        ELSE IF AlreadyMember(studyGroup, userId)
        THEN GroupOut(Replied(400, [success |-> FALSE,
                                    message |-> "Already a member of this group"], <<>>, <<>>), coll)
        ELSE IF Len(studyGroup.members) >= studyGroup.maxMembers
        THEN GroupOut(Replied(400, [success |-> FALSE,
                                    message |-> "Study group is full"], <<>>, <<>>), coll)
        ELSE IF studyGroup.isPrivate
        THEN GroupOut(Replied(403, [success |-> FALSE,
                                    message |-> "This is a private group. You need an invitation to join."],
                              <<>>, <<>>), coll)
        ELSE IF saveThrows THEN GroupOut(Caught("save", Generic), coll)
        ELSE IF populateThrows THEN GroupOut(Caught("populate", Generic), joined)
        ELSE GroupOut(Replied(200, [success |-> TRUE,
                                    message |-> "Successfully joined the study group"],
                              <<>>, <<>>), joined)

\* studyGroup.creator.toString() !== userId
NotCreator(studyGroup, userId) == ~StrictEq(toString(studyGroup.creator), userId)

deleteStudyGroup(id, userId, coll, deleteThrows) ==
    LET studyGroup == coll[id]
    IN  IF studyGroup = NoDoc
        THEN GroupOut(Replied(404, [success |-> FALSE,
                                    message |-> "Study group not found"], <<>>, <<>>), coll)
        ELSE IF NotCreator(studyGroup, userId)
        THEN GroupOut(Replied(403, [success |-> FALSE,
                                    message |-> "Only the creator can delete the group"],
                              <<>>, <<>>), coll)
        ELSE IF deleteThrows THEN GroupOut(Caught("findByIdAndDelete", Generic), coll)
        ELSE GroupOut(Replied(200, [success |-> TRUE,
                                    message |-> "Study group deleted successfully"], <<>>, <<>>),
                      [coll EXCEPT ![id] = NoDoc])

\* members.some(member => member.user.toString() === userId) is AlreadyMember;
\* studyGroup.creator.toString() === userId
IsCreator(studyGroup, userId) == StrictEq(toString(studyGroup.creator), userId)

\* members.filter(member => member.user.toString() !== userId)
WithoutMember(members, userId) ==
    SelectSeq(members, LAMBDA member : ~StrictEq(toString(member.user), userId))

leaveStudyGroup(id, userId, coll, saveThrows) ==
    LET studyGroup == coll[id]
        left == [coll EXCEPT ![id].members = WithoutMember(@, userId)]
    IN  IF studyGroup = NoDoc
        THEN GroupOut(Replied(404, [success |-> FALSE,
                                    message |-> "Study group not found"], <<>>, <<>>), coll)
        ELSE IF ~AlreadyMember(studyGroup, userId)
        THEN GroupOut(Replied(400, [success |-> FALSE,
                                    message |-> "You are not a member of this group"],
                              <<>>, <<>>), coll)
        ELSE IF IsCreator(studyGroup, userId)
        THEN GroupOut(Replied(400, [success |-> FALSE,
                                    message |-> "Group creator cannot leave. Transfer ownership or delete the group."],
                              <<>>, <<>>), coll)
        ELSE IF saveThrows THEN GroupOut(Caught("save", Generic), coll)
        ELSE GroupOut(Replied(200, [success |-> TRUE,
                                    message |-> "Successfully left the study group"],
                              <<>>, <<>>), left)

\* members.some(member => member.user.toString() === userId &&
\*     (member.role === 'admin' || member.role === 'moderator'))
IsAdmin(studyGroup, userId) ==
    \E i \in 1..Len(studyGroup.members) :
        /\ StrictEq(toString(studyGroup.members[i].user), userId)
        /\ studyGroup.members[i].role \in {"admin", "moderator"}

\* the settings updateStudyGroup assigns: a field the body leaves out stays
ApplyUpdates(studyGroup, updates) ==
    [studyGroup EXCEPT
        !.isPrivate = IF updates.privacy = Undefined THEN @
                      ELSE updates.privacy = Str("private"),
        !.maxMembers = IF updates.maxMembers = Undefined THEN @
                       ELSE updates.maxMembers.n]

updateStudyGroup(id, userId, updates, coll, saveThrows, populateThrows) ==
    LET studyGroup == coll[id]
        updated == ApplyUpdates(studyGroup, updates)
        saved == [coll EXCEPT ![id] = updated]
    IN  IF studyGroup = NoDoc
        THEN GroupOut(Replied(404, [success |-> FALSE,
                                    message |-> "Study group not found"], <<>>, <<>>), coll)
        ELSE IF ~IsAdmin(studyGroup, userId) /\ NotCreator(studyGroup, userId)
        THEN GroupOut(Replied(403, [success |-> FALSE,
                                    message |-> "Only admins can update the group"],
                              <<>>, <<>>), coll)
        ELSE IF saveThrows \/ updated.maxMembers < MinMaxMembers
        THEN GroupOut(Caught("save", Generic), coll)
        ELSE IF populateThrows THEN GroupOut(Caught("populate", Generic), saved)
        ELSE GroupOut(Replied(200, [success |-> TRUE, message |-> ""], <<>>, <<>>), saved)

Session(status, ended) == [status |-> status, ended |-> ended]

\* the creator check left out
NotCreatorUnchecked(studyGroup, userId) == FALSE

\* studyGroup.creator.toString() !== userId.toString()
NotCreatorStr(studyGroup, userId) ==
    ~StrictEq(toString(studyGroup.creator), toString(userId))

\* the controller's scheduleSession with the model method it awaits:
\* sessions.push(session) and save
scheduleSession(id, userId, coll, saveThrows, populateThrows) ==
    LET studyGroup == coll[id]
        scheduled == [coll EXCEPT ![id].sessions = Append(@, Session("scheduled", FALSE))]
    IN  IF studyGroup = NoDoc
        THEN GroupOut(Replied(404, [success |-> FALSE,
                                    message |-> "Study group not found"], <<>>, <<>>), coll)
        ELSE IF NotCreatorStr(studyGroup, userId)
        THEN GroupOut(Replied(403, [success |-> FALSE,
                                    message |-> "Only the group creator can schedule sessions"],
                              <<>>, <<>>), coll)
        ELSE IF saveThrows THEN GroupOut(Caught("save", Generic), coll)
        ELSE IF populateThrows THEN GroupOut(Caught("populate", Generic), scheduled)
        ELSE GroupOut(Replied(200, [success |-> TRUE,
                                    message |-> "Session scheduled successfully"],
                              <<>>, <<>>), scheduled)

\* req.io is undefined unless the server attached Socket.IO to the request:
\* the emit then throws after the session has been saved as ended
endSession(id, sessionId, userId, coll, saveThrows, emitThrows) ==
    LET studyGroup == coll[id]
        ended == [coll EXCEPT ![id].sessions[sessionId] = Session("completed", TRUE)]
    IN  IF studyGroup = NoDoc
        THEN GroupOut(Replied(404, [success |-> FALSE,
                                    message |-> "Study group not found"], <<>>, <<>>), coll)
        ELSE IF NotCreatorStr(studyGroup, userId)
        THEN GroupOut(Replied(403, [success |-> FALSE,
                                    message |-> "Only the group creator can end sessions"],
                              <<>>, <<>>), coll)
        ELSE IF sessionId \notin 1..Len(studyGroup.sessions)
        THEN GroupOut(Caught("Session not found", Generic), coll)
        ELSE IF saveThrows THEN GroupOut(Caught("save", Generic), coll)
        ELSE IF emitThrows THEN GroupOut(Caught("emit", Generic), ended)
        ELSE GroupOut([Replied(200, [success |-> TRUE, message |-> "Session ended"],
                               <<>>, <<>>)
                         EXCEPT !.emits =
                           <<Emission(Room("study-session", sessionId), "session-ended"),
                             Emission(Room("study-group", id), "session-status-update")>>],
                      ended)

\* the group chat: chat.messages of the StudyGroup schema
ChatCap == 1000
MessageMaxLength == 1000
MessageTypes == {"text", "file", "image", "system"}
ChatMessage(userId, content, type, createdAt) ==
    [user |-> userId, content |-> content, type |-> type, createdAt |-> createdAt]

\* new Date(): a time after that of every message the chat holds
Now(messages) ==
    IF messages = <<>> THEN 1 ELSE messages[Len(messages)].createdAt + 1

\* Array.prototype.slice(start): a negative start counts from the end
Slice(array, start) ==
    LET from == IF start < 0
                THEN (IF Len(array) + start < 0 THEN 0 ELSE Len(array) + start)
                ELSE (IF start > Len(array) THEN Len(array) ELSE start)
    IN  SubSeq(array, from + 1, Len(array))

\* the validators of a chat message that save() runs
ChatMessageValid(message) ==
    /\ message.user # Undefined
    /\ message.content.js = "string"
    /\ message.content.s # ""
    /\ Len(message.content.s) <= MessageMaxLength
    /\ message.type \in MessageTypes

\* addChatMessage without the slice
addChatMessageUncapped(messages, userId, content, type) ==
    Append(messages, ChatMessage(userId, content, type, Now(messages)))

\* the messages addChatMessage hands to save()
addChatMessage(messages, userId, content, type) ==
    LET pushed == Append(messages, ChatMessage(userId, content, type, Now(messages)))
    IN  IF Len(pushed) > ChatCap THEN Slice(pushed, -ChatCap) ELSE pushed

\* members.some(member => member.user.toString() === userId.toString()
\* && member.isActive): isActive is true of every member the code adds
isMember(studyGroup, userId) ==
    \E i \in 1..Len(studyGroup.members) :
        StrictEq(toString(studyGroup.members[i].user), toString(userId))

sendChatMessage(id, body, userId, coll, saveThrows, populateThrows, emitThrows) ==
    LET studyGroup == coll[id]
        type == IF body.type = Undefined THEN "text" ELSE body.type.s
        messages == addChatMessage(studyGroup.chat.messages, userId, body.content, type)
        saved == [coll EXCEPT ![id].chat.messages = messages]
    IN  IF studyGroup = NoDoc
        THEN GroupOut(Replied(404, [success |-> FALSE,
                                    message |-> "Study group not found"], <<>>, <<>>), coll)
        ELSE IF ~isMember(studyGroup, userId)
        THEN GroupOut(Replied(403, [success |-> FALSE,
                                    message |-> "You must be a member to send messages"],
                              <<>>, <<>>), coll)
        ELSE IF saveThrows \/ ~ChatMessageValid(messages[Len(messages)])
        THEN GroupOut(Caught("save", Generic), coll)
        ELSE IF populateThrows THEN GroupOut(Caught("populate", Generic), saved)
        ELSE IF emitThrows THEN GroupOut(Caught("emit", Generic), saved)
        ELSE GroupOut([Replied(200, [success |-> TRUE, message |-> ""], <<>>, <<>>)
                         EXCEPT !.emits =
                           <<Emission(Room("study-group", id), "new-message")>>],
                      saved)

GroupHandled(o) ==
    /\ Handled(o.out)
    /\ groups' = o.groups
    /\ groupsBefore' = groups
    /\ UNCHANGED <<plans, quizzes, attempts, userProgress>>

CreateStudyGroup ==
    /\ pc = "handler"
    /\ req.route = "POST /api/study-groups"
    /\ \E saveThrows \in BOOLEAN, populateThrows \in BOOLEAN :
         GroupHandled(createStudyGroup(req.body, reqUserId, groups, saveThrows, populateThrows))

JoinStudyGroup ==
    /\ pc = "handler"
    /\ req.route = "POST /api/study-groups/:id/join"
    /\ \E saveThrows \in BOOLEAN, populateThrows \in BOOLEAN :
         GroupHandled(joinStudyGroup(req.id, reqUserId, groups, saveThrows, populateThrows))

DeleteStudyGroup ==
    /\ pc = "handler"
    /\ req.route = "DELETE /api/study-groups/:id"
    /\ \E deleteThrows \in BOOLEAN :
         GroupHandled(deleteStudyGroup(req.id, reqUserId, groups, deleteThrows))

LeaveStudyGroup ==
    /\ pc = "handler"
    /\ req.route = "POST /api/study-groups/:id/leave"
    /\ \E saveThrows \in BOOLEAN :
         GroupHandled(leaveStudyGroup(req.id, reqUserId, groups, saveThrows))

UpdateStudyGroup ==
    /\ pc = "handler"
    /\ req.route = "PUT /api/study-groups/:id"
    /\ \E saveThrows \in BOOLEAN, populateThrows \in BOOLEAN :
         GroupHandled(updateStudyGroup(req.id, reqUserId, req.body, groups, saveThrows,
                                       populateThrows))

ScheduleSession ==
    /\ pc = "handler"
    /\ req.route = "POST /api/study-groups/:id/sessions"
    /\ \E saveThrows \in BOOLEAN, populateThrows \in BOOLEAN :
         GroupHandled(scheduleSession(req.id, reqUserId, groups, saveThrows, populateThrows))

EndSession ==
    /\ pc = "handler"
    /\ req.route = "POST /api/study-groups/:id/sessions/:sessionId/end"
    /\ \E saveThrows \in BOOLEAN, emitThrows \in BOOLEAN :
         GroupHandled(endSession(req.id, req.sessionId, reqUserId, groups, saveThrows,
                                 emitThrows))

SendChatMessage ==
    /\ pc = "handler"
    /\ req.route = "POST /api/study-groups/:id/chat"
    /\ \E saveThrows \in BOOLEAN, populateThrows \in BOOLEAN, emitThrows \in BOOLEAN :
         GroupHandled(sendChatMessage(req.id, req.body, reqUserId, groups, saveThrows,
                                      populateThrows, emitThrows))

----------------------------------------------------------------------------
(* Requests served concurrently. Node runs a handler until its next await:
   between the findById that reads a group and the save() that writes it,
   other requests read and write the same group. *)

\* two requests in flight are what a read-then-save race takes
Workers == {"w1", "w2"}

Idle ==
    [pc |-> "idle", route |-> "none", id |-> 0, sessionId |-> 0, body |-> Undefined,
     userId |-> Undefined, snap |-> NoDoc, status |-> 0, error |-> ""]

\* a request that was answered: what the handler held is gone
Done(wk, status, error) ==
    [Idle EXCEPT !.pc = "done", !.route = wk.route, !.userId = wk.userId,
                 !.status = status, !.error = error]

InitInflight == inflight = [w \in Workers |-> Idle]

\* the document with its version key __v
WithVersion(doc, n) ==
    [f \in DOMAIN doc \cup {"v"} |-> IF f = "v" THEN n ELSE doc[f]]

\* a request arrives and passes authenticate, or is answered 401
Receive(w, request) ==
    /\ boot.pc = "listening"
    /\ inflight[w].pc = "idle"
    /\ \E findThrows \in BOOLEAN :
         LET a == authenticate(request.token, findThrows)
         IN  inflight' =
               [inflight EXCEPT ![w] =
                  IF a.next
                  THEN [Idle EXCEPT
                          !.pc = IF request.route = "POST /api/study-groups"
                                 THEN "save" ELSE "find",
                          !.route = request.route, !.id = request.id,
                          !.sessionId = request.sessionId, !.body = request.body,
                          !.userId = a.userId]
                  ELSE Done(Idle, a.resp.status, "")]
    /\ UNCHANGED <<aiVars, httpVars, dbVars, sockets, boot, study>>

\* StudyGroup.findOne({'sessions.joinCode': code}): the group's id, 0 if none
FindByCode(coll, code) ==
    IF \E i \in GroupIds : coll[i] # NoDoc /\
          \E k \in 1..Len(coll[i].sessions) : Str(coll[i].sessions[k].joinCode) = code
    THEN CHOOSE i \in GroupIds : coll[i] # NoDoc /\
          \E k \in 1..Len(coll[i].sessions) : Str(coll[i].sessions[k].joinCode) = code
    ELSE 0

\* await StudyGroup.findById(id) / findOne(...): the handler holds the
\* document as it is now
FindGroup(w) ==
    LET wk == inflight[w]
        byCode == wk.route = "POST /api/study-groups/sessions/join-by-code"
        id == IF ~byCode THEN wk.id
              ELSE IF wk.body.code.js = "string" THEN FindByCode(groups, wk.body.code)
              ELSE 0
    IN  /\ wk.pc = "find"
        /\ inflight' = [inflight EXCEPT ![w].pc = "save", ![w].id = id,
                                         ![w].snap = IF id \in GroupIds THEN groups[id]
                                                     ELSE NoDoc]
        /\ UNCHANGED <<aiVars, httpVars, dbVars, sockets, boot, study>>

\* what save() sends for the changes a handler made to the document it read
\* (Mongoose, Model.prototype.$__delta): the update, whether it carries the
\* filter __v = the version read, and whether it increments __v.
\*   members.push(m): $push members, no filter, increment
\*   members = members.filter(..): $set of an array, filter and increment
\*   settings.x = y: $set, no filter, no increment
\*   sessions[k].attendees.push(a): $push below an array position, filter
\*     and increment
\*   sessions[k].status = s: $set below an array position, filter
NoDelta == [op |-> "none", where |-> FALSE, inc |-> FALSE]
Delta(op, where, inc) == [op |-> op, where |-> where, inc |-> inc]

\* save() of a nested push without the version filter
NestedPushUnversioned == Delta("attend", FALSE, TRUE)
NestedPush == Delta("attend", TRUE, TRUE)

MemberPush == Delta("push", FALSE, TRUE)

\* updateOne(filter, update): the collection after the save, or the
\* VersionError of a filter that matches no document
Commit(coll, id, snap, mine, delta, k) ==
    LET current == coll[id]
        stale == delta.where /\ (current = NoDoc \/ current.v # snap.v)
        v == IF delta.inc THEN current.v + 1 ELSE current.v
        written ==
            CASE delta.op = "push" ->
                   [current EXCEPT !.members = Append(@, mine.members[Len(mine.members)]),
                                   !.v = v]
              [] delta.op = "setMembers" -> [current EXCEPT !.members = mine.members, !.v = v]
              [] delta.op = "settings" ->
                   [current EXCEPT !.isPrivate = mine.isPrivate,
                                   !.maxMembers = mine.maxMembers]
              [] delta.op = "attend" ->
                   [current EXCEPT
                      !.sessions[k].attendees =
                          Append(@, mine.sessions[k].attendees[Len(mine.sessions[k].attendees)]),
                      !.sessions[k].status = mine.sessions[k].status,
                      !.v = v]
              [] delta.op = "live" ->
                   [current EXCEPT !.sessions[k].status = mine.sessions[k].status]
              [] OTHER -> current
    IN  IF delta.op = "none" THEN [ok |-> TRUE, groups |-> coll]
        ELSE IF stale \/ current = NoDoc THEN [ok |-> FALSE, groups |-> coll]
        ELSE [ok |-> TRUE, groups |-> [coll EXCEPT ![id] = written]]

\* the model method joinSession up to its save(): the document as the
\* handler changed it and the session's place, 0 when sessions.id finds none
Attendee(userId) == [user |-> userId]
IsAttendee(session, userId) ==
    \E i \in 1..Len(session.attendees) :
        StrictEq(toString(session.attendees[i].user), toString(userId))
joinSession(studyGroup, sessionId, userId, due) ==
    IF sessionId \notin 1..Len(studyGroup.sessions) THEN studyGroup
    ELSE LET session == studyGroup.sessions[sessionId]
             attended == IF IsAttendee(session, userId) THEN session
                         ELSE [session EXCEPT !.attendees = Append(@, Attendee(userId))]
             live == IF due /\ session.status = "scheduled"
                     THEN [attended EXCEPT !.status = "live"] ELSE attended
         IN  [studyGroup EXCEPT !.sessions[sessionId] = live]

\* the rest of a group handler after its read: the status it answers and
\* the collection it leaves
Settle(wk, coll, saveThrows, populateThrows, due) ==
    LET read == [i \in GroupIds |-> IF i = wk.id THEN wk.snap ELSE NoDoc]
        isJoin == wk.route = "POST /api/study-groups/:id/join"
        isLeave == wk.route = "POST /api/study-groups/:id/leave"
        isUpdate == wk.route = "PUT /api/study-groups/:id"
        o == IF isJoin THEN joinStudyGroup(wk.id, wk.userId, read, saveThrows, populateThrows)
             ELSE IF isLeave THEN leaveStudyGroup(wk.id, wk.userId, read, saveThrows)
             ELSE updateStudyGroup(wk.id, wk.userId, wk.body, read, saveThrows, populateThrows)
        mine == o.groups[wk.id]
        delta == IF mine = wk.snap THEN NoDelta
                 ELSE IF isJoin THEN MemberPush
                 ELSE IF isLeave THEN Delta("setMembers", TRUE, TRUE)
                 ELSE Delta("settings", FALSE, FALSE)
        c == Commit(coll, wk.id, wk.snap, mine, delta, 0)
    IN  IF c.ok THEN [status |-> o.out.resp.status, error |-> o.out.caught,
                      groups |-> c.groups]
        ELSE [status |-> 500, error |-> "VersionError", groups |-> coll]

\* createStudyGroup has no read: new StudyGroup(..).save() inserts
SettleCreate(wk, coll, saveThrows, populateThrows) ==
    LET o == createStudyGroup(wk.body, wk.userId, coll, saveThrows, populateThrows)
    IN  [status |-> o.out.resp.status, error |-> o.out.caught,
         groups |-> [i \in GroupIds |->
                       IF o.groups[i] # coll[i] THEN WithVersion(o.groups[i], 0)
                       ELSE coll[i]]]

\* the controllers joinSession and joinSessionByCode after their read
SettleAttend(wk, coll, saveThrows, due) ==
    LET byCode == wk.route = "POST /api/study-groups/sessions/join-by-code"
        k == IF ~byCode \/ wk.snap = NoDoc THEN wk.sessionId
             ELSE CHOOSE i \in 1..Len(wk.snap.sessions) :
                     Str(wk.snap.sessions[i].joinCode) = wk.body.code
        mine == joinSession(wk.snap, k, wk.userId, due)
        pushed == mine.sessions[k].attendees # wk.snap.sessions[k].attendees
        delta == IF pushed THEN NestedPush
                 ELSE IF mine # wk.snap THEN Delta("live", TRUE, FALSE)
                 ELSE NoDelta
        c == Commit(coll, wk.id, wk.snap, mine, delta, k)
        reply(status, error) == [status |-> status, error |-> error, groups |-> coll]
    IN  IF byCode /\ wk.body.code.js # "string" THEN reply(400, "")
        ELSE IF wk.snap = NoDoc THEN reply(404, "")
        ELSE IF ~byCode /\ ~isMember(wk.snap, wk.userId) THEN reply(403, "")
        ELSE IF k \notin 1..Len(wk.snap.sessions) THEN reply(500, "Session not found")
        ELSE IF saveThrows THEN reply(500, "save")
        ELSE IF ~c.ok THEN reply(500, "VersionError")
        ELSE [status |-> 200, error |-> "", groups |-> c.groups]

\* the handler runs on from its read to its response
SaveGroup(w) ==
    LET wk == inflight[w]
    IN  /\ wk.pc = "save"
        /\ \E saveThrows \in BOOLEAN, populateThrows \in BOOLEAN, due \in BOOLEAN :
             LET o == IF wk.route = "POST /api/study-groups"
                      THEN SettleCreate(wk, groups, saveThrows, populateThrows)
                      ELSE IF wk.route \in AttendRoutes
                      THEN SettleAttend(wk, groups, saveThrows, due)
                      ELSE Settle(wk, groups, saveThrows, populateThrows, due)
             IN  /\ groups' = o.groups
                 /\ inflight' = [inflight EXCEPT ![w] = Done(wk, o.status, o.error)]
        /\ groupsBefore' = groups
        /\ UNCHANGED <<aiVars, httpVars, plans, quizzes, attempts, userProgress, sockets, boot, study>>

\* the client has read the response
Respond(w) ==
    /\ inflight[w].pc = "done"
    /\ inflight' = [inflight EXCEPT ![w] = Idle]
    /\ UNCHANGED <<aiVars, httpVars, dbVars, sockets, boot, study>>

----------------------------------------------------------------------------
(* startServer (test-final.js) and connectDB (config/database.js) *)

Boot(at, db, retry, dbAtListen) ==
    [pc |-> at, db |-> db, retry |-> retry, dbAtListen |-> dbAtListen]

\* the server as the other specifications find it: connected and listening
ServerUp == boot = Boot("listening", "connected", FALSE, "connected")

\* await checkMongoConnection(): true or false, never a throw; a false is
\* logged and startServer goes on
CheckMongoConnection ==
    /\ boot.pc = "check"
    /\ \E isMongoAvailable \in BOOLEAN : boot' = [boot EXCEPT !.pc = "connect"]
    /\ UNCHANGED <<aiVars, httpVars, dbVars, sockets, study, inflight>>

\* one run of connectDB: mongoose.connect resolves, or it rejects and the
\* catch sets the 5 s retry timer; the promise connectDB returns resolves
\* in both cases
connectDB(b, connects) ==
    IF connects THEN [b EXCEPT !.db = "connected", !.retry = FALSE]
    ELSE [b EXCEPT !.retry = TRUE]

\* await connectDB() in startServer
ConnectDB ==
    /\ boot.pc = "connect"
    /\ \E connects \in BOOLEAN :
         boot' = [connectDB(boot, connects) EXCEPT !.pc = "listen"]
    /\ UNCHANGED <<aiVars, httpVars, dbVars, sockets, study, inflight>>

\* the retry timer fires: connectDB() again, awaited by nobody
RetryConnectDB ==
    /\ boot.retry
    /\ \E connects \in BOOLEAN : boot' = connectDB(boot, connects)
    /\ UNCHANGED <<aiVars, httpVars, dbVars, sockets, study, inflight>>

\* server.listen(PORT, ...)
Listen ==
    /\ boot.pc = "listen"
    /\ boot' = [boot EXCEPT !.pc = "listening", !.dbAtListen = boot.db]
    /\ UNCHANGED <<aiVars, httpVars, dbVars, sockets, study, inflight>>

----------------------------------------------------------------------------
(* Socket.IO: VideoCallModal.tsx and the server's connection handler *)

\* the modal mounts: io(origin), then socket.emit('join-session-room', sessionId)
OpenVideoCall(c, sessionId) ==
    /\ sockets.view[c] = 0
    /\ Len(sockets.toServer) < MaxQueue
    /\ sockets' = [sockets EXCEPT
                     !.view[c] = sessionId,
                     !.got[c] = FALSE,
                     !.toServer = Append(@, Packet(c, "join-session-room", sessionId))]
    /\ UNCHANGED <<aiVars, httpVars, dbVars, boot, inflight, study>>

\* io.on('connection'): the server's listeners. 'join-study-group' joins the
\* socket to the group's room; an event with no listener is dropped
SocketOn ==
    /\ sockets.toServer # <<>>
    /\ LET p == Head(sockets.toServer)
       IN  sockets' = [sockets EXCEPT
                         !.toServer = Tail(@),
                         !.rooms = IF p.event = "join-study-group"
                                   THEN @ \cup {[socket |-> p.from,
                                                 room |-> Room("study-group", p.arg)]}
                                   ELSE @]
    /\ UNCHANGED <<aiVars, httpVars, dbVars, boot, inflight, study>>

\* onClose(): called by the 'session-ended' listener or by the user leaving
\* the call; the effect's cleanup then emits 'leave-session-room' and
\* disconnects, and the packet may or may not get out before the disconnect
CloseView(c, why) ==
    /\ sockets.view[c] # 0
    /\ why = "session-ended" => "session-ended" \in sockets.inbox[c]
    /\ \E sent \in BOOLEAN :
         sockets' = [sockets EXCEPT
                       !.view[c] = 0,
                       !.got[c] = (why = "session-ended"),
                       !.inbox[c] = {},
                       !.rooms = {r \in @ : r.socket # c},
                       !.toServer = IF sent /\ Len(@) < MaxQueue
                                    THEN Append(@, Packet(c, "leave-session-room",
                                                          sockets.view[c]))
                                    ELSE @]
    /\ UNCHANGED <<aiVars, httpVars, dbVars, boot, inflight, study>>

----------------------------------------------------------------------------
(* components/StudySession.tsx *)

NumSections == 5
Sections == 0..(NumSections - 1)

\* what one render of the component sees of its state: the values the
\* functions created in that render close over
Render(ui) == [sessionId |-> ui.sessionId, completedSections |-> ui.completedSections]

\* the component is not shown. target stands for its props studyPlanId and
\* topicId, starting counts the start requests not yet answered, effect is
\* the render whose effect is in place
Targets == {1, 2}

Unmounted ==
    [mounted |-> FALSE, currentSection |-> 0, completedSections |-> {},
     sessionId |-> Null, target |-> 1, starting |-> 0,
     effect |-> [sessionId |-> Null, completedSections |-> {}]]

\* sent: the end requests sent; started: how many sessions the server has
\* started for the component
InitStudy == study = [ui |-> Unmounted, sent |-> {}, started |-> 0]

\* the sessionId of the n-th session started
StudySessionId(n) == Str("session" \o ToString(n))

\* the component mounts with fresh state: the effect of the first render
\* runs and calls startStudySession
OpenStudySession ==
    /\ ~study.ui.mounted
    /\ study.started < MaxStarts
    /\ \E target \in Targets :
         study' = [study EXCEPT !.ui = [Unmounted EXCEPT !.mounted = TRUE,
                                                          !.target = target,
                                                          !.starting = 1]]
    /\ UNCHANGED <<aiVars, httpVars, dbVars, sockets, boot, inflight>>

\* the response to a start request: setSessionId(data.sessionId) if it is ok
StartStudySession ==
    /\ study.ui.mounted
    /\ study.ui.starting > 0
    /\ \E ok \in BOOLEAN :
         study' = IF ok
                  THEN [study EXCEPT !.ui.starting = @ - 1,
                                     !.ui.sessionId = StudySessionId(study.started + 1),
                                     !.started = @ + 1]
                  ELSE [study EXCEPT !.ui.starting = @ - 1]
    /\ UNCHANGED <<aiVars, httpVars, dbVars, sockets, boot, inflight>>

\* the sidebar buttons, Previous and Next
SetCurrentSection(section) ==
    /\ study.ui.mounted
    /\ study.ui.currentSection # section
    /\ study' = [study EXCEPT !.ui.currentSection = section]
    /\ UNCHANGED <<aiVars, httpVars, dbVars, sockets, boot, inflight>>

\* the button of the section on display, disabled once the section is
\* completed: setCompletedSections(prev => new Set([...prev, sectionId]))
markSectionComplete(ui, sectionId) ==
    [ui EXCEPT !.completedSections = @ \cup {sectionId}]

MarkSectionComplete ==
    /\ study.ui.mounted
    /\ study.ui.currentSection \notin study.ui.completedSections
    /\ study' = [study EXCEPT !.ui = markSectionComplete(@, study.ui.currentSection)]
    /\ UNCHANGED <<aiVars, httpVars, dbVars, sockets, boot, inflight>>

\* a Complete button that is never disabled
CompleteNeverDisabled(completedSections) == FALSE

\* disabled={completedSections.size < sections.length}
CompleteDisabled(completedSections) == Cardinality(completedSections) < NumSections

\* endStudySession(completed) of a render: nothing without a sessionId, else
\* the POST to /api/study/progress/end
endStudySession(render, sent, completed) ==
    IF render.sessionId = Null THEN sent
    ELSE sent \cup {[sessionId |-> render.sessionId, completed |-> completed,
                     sectionsCompleted |-> render.completedSections]}

\* a cleanup that reads the state as it is when it runs
CleanupLatest(ui, sent) ==
    IF ui.sessionId # Null THEN endStudySession(Render(ui), sent, FALSE) ELSE sent

\* the function the effect returns: sessionId and endStudySession are those
\* of the render the effect ran in
Cleanup(ui, sent) ==
    IF ui.effect.sessionId # Null THEN endStudySession(ui.effect, sent, FALSE) ELSE sent

\* handleCompleteStudy: endStudySession(true), onComplete(), onClose(), which
\* unmounts the component and runs the cleanup; if onComplete throws the
\* component stays
HandleCompleteStudy ==
    /\ study.ui.mounted
    /\ ~CompleteDisabled(study.ui.completedSections)
    /\ \E onCompleteThrows \in BOOLEAN :
         LET sent == endStudySession(Render(study.ui), study.sent, TRUE)
         IN  study' = [study EXCEPT
                         !.ui = IF onCompleteThrows THEN @ ELSE Unmounted,
                         !.sent = IF onCompleteThrows THEN sent
                                  ELSE Cleanup(study.ui, sent)]
    /\ UNCHANGED <<aiVars, httpVars, dbVars, sockets, boot, inflight>>

\* the close button: onClose() unmounts the component and the cleanup runs
CloseStudySession ==
    /\ study.ui.mounted
    /\ study' = [study EXCEPT !.ui = Unmounted, !.sent = Cleanup(study.ui, @)]
    /\ UNCHANGED <<aiVars, httpVars, dbVars, sockets, boot, inflight>>

\* studyPlanId or topicId changes while the component is shown: the cleanup
\* of the effect in place runs, then the effect of this render, which calls
\* startStudySession; the state of the component stays
RetargetStudySession ==
    /\ study.ui.mounted
    /\ study.started + study.ui.starting < MaxStarts
    /\ \E target \in Targets \ {study.ui.target} :
         study' = [study EXCEPT !.ui.target = target,
                                !.ui.effect = Render(study.ui),
                                !.ui.starting = @ + 1,
                                !.sent = Cleanup(study.ui, @)]
    /\ UNCHANGED <<aiVars, httpVars, dbVars, sockets, boot, inflight>>

----------------------------------------------------------------------------
(* Specifications *)

PlanBodies ==
    {[subject |-> Str("given"), level |-> Str("given"), duration |-> d] : d \in Durations}
QuizBodies ==
    {[questionCount |-> c, isPublic |-> p] :
        c \in {Undefined} \cup {Num(n) : n \in Counts}, p \in BOOLEAN}
UploadBodies == {[duration |-> d] : d \in Durations}
MaxSessions == 1
SessionIds == 1..(MaxSessions + 1)

HttpRequests ==
    {[route |-> "POST /api/study/plans", token |-> t, body |-> b] :
        t \in Tokens, b \in PlanBodies}
    \cup {[route |-> "POST /api/study/quizzes", token |-> t, body |-> b] :
        t \in Tokens, b \in QuizBodies}
    \cup {[route |-> "POST /api/upload/syllabus", token |-> t, body |-> b, files |-> f] :
        t \in Tokens, b \in UploadBodies, f \in 0..1}
    \cup {[route |-> "GET /api/ai/agents", token |-> t] : t \in Tokens}
    \cup {[route |-> "GET /api/health", token |-> t] : t \in Tokens}
    \cup {[route |-> "POST /api/study-groups/:id/sessions/:sessionId/end", token |-> t,
           id |-> i, sessionId |-> sid] :
        t \in Tokens, i \in GroupIds, sid \in SessionIds}
    \cup {[route |-> "POST /api/study-groups/:id/sessions", token |-> t, id |-> i] :
        t \in Tokens, i \in GroupIds}

GroupBodies ==
    {[name |-> n, subject |-> s, privacy |-> p, maxMembers |-> Num(k)] :
        n \in BOOLEAN, s \in BOOLEAN, p \in {"public", "private"}, k \in 1..MaxGroupSize}

UpdateBodies ==
    {[privacy |-> p, maxMembers |-> k] :
        p \in {Undefined, Str("public"), Str("private")},
        k \in {Undefined} \cup {Num(n) : n \in 1..MaxGroupSize}}

GroupRequests ==
    {[route |-> "POST /api/study-groups", token |-> t, body |-> b] :
        t \in Tokens, b \in GroupBodies}
    \cup {[route |-> r, token |-> t, id |-> i] :
        r \in {"POST /api/study-groups/:id/join", "DELETE /api/study-groups/:id",
               "POST /api/study-groups/:id/leave"},
        t \in Tokens, i \in GroupIds}
    \cup {[route |-> "PUT /api/study-groups/:id", token |-> t, id |-> i, body |-> b] :
        t \in Tokens, i \in GroupIds, b \in UpdateBodies}

\* u1 has created group 1 and scheduled one session in it
SeededGroups ==
    [i \in GroupIds |->
        IF i = 1
        THEN [exists |-> TRUE, creator |-> ObjectId("u1"),
              members |-> <<Member(ObjectId("u1"), "admin")>>,
              maxMembers |-> MaxGroupSize, isPrivate |-> FALSE,
              sessions |-> [k \in 1..MaxSessions |-> Session("scheduled", FALSE)]]
        ELSE NoDoc]

\* requests stop once MaxDocs documents are saved, and a group holds at
\* most MaxSessions + 1 sessions before scheduling stops
SendHttp ==
    \E request \in HttpRequests :
        /\ Len(plans) + Len(quizzes) < MaxDocs
        /\ request.route = "POST /api/study-groups/:id/sessions" =>
              (groups[request.id] # NoDoc =>
                  Len(groups[request.id].sessions) <= MaxSessions)
        /\ Send(request)

SendGroup ==
    \E request \in GroupRequests :
        /\ request.route = "POST /api/study-groups" => \E i \in GroupIds : groups[i] = NoDoc
        /\ Send(request)

Init ==
    /\ InitAI
    /\ InitHttp
    /\ plans = <<>>
    /\ attempts = <<>>
    /\ userProgress = <<>>
    /\ quizzes = <<>>
    /\ groups = SeededGroups
    /\ groupsBefore = groups
    /\ InitSockets
    /\ ServerUp
    /\ InitStudy
    /\ InitInflight

Next ==
    \/ SendHttp
    \/ Authenticate
    \/ Finish
    \/ HealthRoute
    \/ GetAgents
    \/ CreateStudyPlan
    \/ CreateQuiz
    \/ UploadSyllabus
    \/ EndSession
    \/ ScheduleSession

Spec == Init /\ [][Next]_vars

InitService ==
    /\ aiCall \in ServiceCalls
    /\ aiResult = NoResult
    /\ aiLog = <<>>
    /\ InitHttp
    /\ plans = <<>>
    /\ attempts = <<>>
    /\ userProgress = <<>>
    /\ quizzes = <<>>
    /\ groups = [i \in GroupIds |-> NoDoc]
    /\ groupsBefore = groups
    /\ InitSockets
    /\ ServerUp
    /\ InitStudy
    /\ InitInflight

NextService ==
    \/ CallGenerate
    \/ CallGenerateQuizQuestions
    \/ CallGenerateDetailedStudyPlan

SpecService == InitService /\ [][NextService]_vars

InitGroups ==
    /\ InitAI
    /\ InitHttp
    /\ plans = <<>>
    /\ attempts = <<>>
    /\ userProgress = <<>>
    /\ quizzes = <<>>
    /\ groups = [i \in GroupIds |-> NoDoc]
    /\ groupsBefore = groups
    /\ InitSockets
    /\ ServerUp
    /\ InitStudy
    /\ InitInflight

NextGroups ==
    \/ SendGroup
    \/ Authenticate
    \/ Finish
    \/ CreateStudyGroup
    \/ JoinStudyGroup
    \/ DeleteStudyGroup
    \/ LeaveStudyGroup
    \/ UpdateStudyGroup

SpecGroups == InitGroups /\ [][NextGroups]_vars

\* quiz attempts against a collection that holds one quiz
Options == 0..1
QuizDocs ==
    {[creator |-> ObjectId("u1"), isPublic |-> TRUE, aiGenerated |-> TRUE,
      questions |-> [i \in 1..n |-> [src |-> "ai", correct |-> Num(f[i])]]] :
        n \in 1..MaxItems, f \in [1..MaxItems -> Options]}

AnswerArrays ==
    {Arr([i \in 1..n |-> Num(f[i])]) : n \in 0..MaxItems, f \in [1..MaxItems -> Options]}

AttemptRequests ==
    {[route |-> "POST /api/study/quiz-attempts", token |-> t,
      body |-> [quizId |-> q, answers |-> a]] :
        t \in Tokens, q \in 1..2, a \in {Undefined} \cup AnswerArrays}

SendAttempt == \E request \in AttemptRequests : Send(request)

InitQuiz ==
    /\ InitAI
    /\ InitHttp
    /\ plans = <<>>
    /\ attempts = <<>>
    /\ userProgress = <<>>
    /\ \E quiz \in QuizDocs : quizzes = <<quiz>>
    /\ groups = [i \in GroupIds |-> NoDoc]
    /\ groupsBefore = groups
    /\ InitSockets
    /\ ServerUp
    /\ InitStudy
    /\ InitInflight

NextQuiz ==
    \/ SendAttempt
    \/ Authenticate
    \/ Finish
    \/ SubmitQuizAttempt

SpecQuiz == InitQuiz /\ [][NextQuiz]_vars

\* the StudySession component of one client
InitStudySession ==
    /\ InitAI
    /\ InitHttp
    /\ plans = <<>>
    /\ attempts = <<>>
    /\ userProgress = <<>>
    /\ quizzes = <<>>
    /\ groups = [i \in GroupIds |-> NoDoc]
    /\ groupsBefore = groups
    /\ InitSockets
    /\ ServerUp
    /\ InitStudy
    /\ InitInflight

NextStudySession ==
    \/ OpenStudySession
    \/ StartStudySession
    \/ \E section \in Sections : SetCurrentSection(section)
    \/ MarkSectionComplete
    \/ HandleCompleteStudy
    \/ CloseStudySession

SpecStudySession == InitStudySession /\ [][NextStudySession]_vars

\* the component opened, given other props while it is shown, and closed
\* before its sections are all completed
NextStudyView ==
    \/ OpenStudySession
    \/ StartStudySession
    \/ MarkSectionComplete
    \/ RetargetStudySession
    \/ CloseStudySession

SpecStudyView == InitStudySession /\ [][NextStudyView]_vars

\* the server from its start, with the routes that read the database
BootRequests ==
    {[route |-> r, token |-> t] :
        r \in {"GET /api/ai/agents", "GET /api/health"}, t \in Tokens}

SendBoot == \E request \in BootRequests : Send(request)

InitBoot ==
    /\ InitAI
    /\ InitHttp
    /\ plans = <<>>
    /\ attempts = <<>>
    /\ userProgress = <<>>
    /\ quizzes = <<>>
    /\ groups = [i \in GroupIds |-> NoDoc]
    /\ groupsBefore = groups
    /\ InitSockets
    /\ boot = Boot("check", "none", FALSE, "none")
    /\ InitStudy
    /\ InitInflight

NextBoot ==
    \/ CheckMongoConnection
    \/ ConnectDB
    \/ RetryConnectDB
    \/ Listen
    \/ SendBoot
    \/ Authenticate
    \/ Finish
    \/ HealthRoute
    \/ GetAgents

SpecBoot == InitBoot /\ [][NextBoot]_vars

\* the end-session route together with the clients' sockets
SocketRequests ==
    {[route |-> "POST /api/study-groups/:id/sessions/:sessionId/end", token |-> t,
      id |-> i, sessionId |-> sid] :
        t \in Tokens, i \in GroupIds, sid \in SessionIds}

SendSocket == \E request \in SocketRequests : Send(request)

InitSocket ==
    /\ InitAI
    /\ InitHttp
    /\ plans = <<>>
    /\ attempts = <<>>
    /\ userProgress = <<>>
    /\ quizzes = <<>>
    /\ groups = SeededGroups
    /\ groupsBefore = groups
    /\ InitSockets
    /\ ServerUp
    /\ InitStudy
    /\ InitInflight

NextSocket ==
    \/ SendSocket
    \/ Authenticate
    \/ Finish
    \/ EndSession
    \/ \E c \in Clients, sessionId \in SessionIds : OpenVideoCall(c, sessionId)
    \/ SocketOn
    \/ \E c \in Clients, why \in {"session-ended", "leave"} : CloseView(c, why)

\* the server and the event loops of the clients keep running: a request is
\* served, a packet that arrived is handled, a listener whose event arrived
\* is called. Nothing forces a user to leave a call.
SpecSocket ==
    /\ InitSocket
    /\ [][NextSocket]_vars
    /\ WF_vars(Authenticate)
    /\ WF_vars(EndSession)
    /\ WF_vars(SocketOn)
    /\ \A c \in Clients : WF_vars(CloseView(c, "session-ended"))

\* the chat of a group that two members have used for a while
MaxChatSends == 3
ChatHistory(n) ==
    [i \in 1..n |-> ChatMessage(ObjectId("u1"), Str("hi"), "text", i)]
ChatGroups ==
    [i \in GroupIds |->
        IF i = 1
        THEN [exists |-> TRUE, creator |-> ObjectId("u1"),
              members |-> <<Member(ObjectId("u1"), "admin"), Member(ObjectId("u2"), "member")>>,
              maxMembers |-> MaxGroupSize, isPrivate |-> FALSE,
              sessions |-> <<>>,
              chat |-> [messages |-> ChatHistory(ChatCap - 1)]]
        ELSE NoDoc]

ChatBodies ==
    {[content |-> c, type |-> t] :
        c \in {Undefined, Str(""), Str("hi")}, t \in {Undefined, Str("image"), Str("video")}}
ChatRequests ==
    {[route |-> "POST /api/study-groups/:id/chat", token |-> t, id |-> i, body |-> b] :
        t \in Tokens, i \in GroupIds, b \in ChatBodies}

\* requests stop once MaxChatSends messages were added to the seeded chat
SendChat ==
    \E request \in ChatRequests :
        /\ Now(groups[1].chat.messages) < ChatCap + MaxChatSends
        /\ Send(request)

InitChat ==
    /\ InitAI
    /\ InitHttp
    /\ plans = <<>>
    /\ attempts = <<>>
    /\ userProgress = <<>>
    /\ quizzes = <<>>
    /\ groups = ChatGroups
    /\ groupsBefore = groups
    /\ InitSockets
    /\ ServerUp
    /\ InitStudy
    /\ InitInflight

NextChat ==
    \/ SendChat
    \/ Authenticate
    \/ Finish
    \/ SendChatMessage

SpecChat == InitChat /\ [][NextChat]_vars

\* two users who each have one plan with one topic and one day of content
PlanDoc(u, topicStatus) ==
    [user |-> ObjectId(u), title |-> Str("plan"), dailyContent |-> <<1>>,
     topics |-> <<[id |-> "t1", status |-> Str(topicStatus), completed |-> FALSE]>>,
     progress |-> [completedTopics |-> 0, totalTopics |-> 1, percentage |-> 0]]
SeededPlans == <<PlanDoc("u1", "not_started"), PlanDoc("u2", "not_started")>>
PlanIds == 1..(Len(SeededPlans) + 1)
TopicIds == {"1", "t1", "t9"}
PlanUpdates ==
    {[user |-> u, title |-> t] :
        u \in {Undefined, Str("u2"), Str("x")}, t \in {Undefined, Str("renamed")}}
StatusBodies == {[status |-> st] : st \in {Str("completed"), Str("not_started"), Str("done")}}

PlanRequests ==
    {[route |-> "GET /api/study/plans", token |-> t] : t \in Tokens}
    \cup {[route |-> "PUT /api/study/plans/:id", token |-> t, id |-> i, body |-> b] :
        t \in Tokens, i \in PlanIds, b \in PlanUpdates}
    \cup {[route |-> "PUT /api/study/plans/:planId/topics/:topicId", token |-> t,
           id |-> i, topicId |-> k, body |-> b] :
        t \in Tokens, i \in PlanIds, k \in TopicIds, b \in StatusBodies}
    \cup {[route |-> "GET /api/study/plans/:planId/topics/:topicId/content", token |-> t,
           id |-> i, topicId |-> k] :
        t \in Tokens, i \in PlanIds, k \in TopicIds}

SendPlan == \E request \in PlanRequests : Send(request)

InitPlans ==
    /\ InitAI
    /\ InitHttp
    /\ plans = SeededPlans
    /\ attempts = <<>>
    /\ userProgress = <<>>
    /\ quizzes = <<>>
    /\ groups = [i \in GroupIds |-> NoDoc]
    /\ groupsBefore = groups
    /\ InitSockets
    /\ ServerUp
    /\ InitStudy
    /\ InitInflight

NextPlans ==
    \/ SendPlan
    \/ Authenticate
    \/ Finish
    \/ GetStudyPlans
    \/ UpdateStudyPlan
    \/ UpdateTopicStatus
    \/ GetStudyContent

SpecPlans == InitPlans /\ [][NextPlans]_vars

\* concurrent requests to the group routes, on an empty collection or on a
\* group of u1 with one session scheduled and room for one more member
RaceSession ==
    [status |-> "scheduled", ended |-> FALSE, attendees |-> <<>>, joinCode |-> "code1"]
RaceGroups ==
    [i \in GroupIds |->
        IF i = 1
        THEN [exists |-> TRUE, creator |-> ObjectId("u1"),
              members |-> <<Member(ObjectId("u1"), "admin")>>,
              maxMembers |-> MinMaxMembers, isPrivate |-> FALSE,
              sessions |-> <<RaceSession>>, v |-> 0]
        ELSE NoDoc]

RaceTokens == {[kind |-> "none"]} \cup {[kind |-> "valid", user |-> u] : u \in Users}
MemberRequests ==
    {[route |-> "POST /api/study-groups", token |-> t, id |-> 0, sessionId |-> 0,
      body |-> [name |-> TRUE, subject |-> TRUE, privacy |-> "public", maxMembers |-> Num(k)]] :
        t \in RaceTokens, k \in 1..MinMaxMembers}
    \cup {[route |-> r, token |-> t, id |-> i, sessionId |-> 0, body |-> Undefined] :
        r \in {"POST /api/study-groups/:id/join", "POST /api/study-groups/:id/leave"},
        t \in RaceTokens, i \in GroupIds}
    \cup {[route |-> "PUT /api/study-groups/:id", token |-> t, id |-> i, sessionId |-> 0,
           body |-> [privacy |-> Undefined, maxMembers |-> Num(MinMaxMembers)]] :
        t \in RaceTokens, i \in GroupIds}
AttendRequests ==
    {[route |-> "POST /api/study-groups/:id/sessions/:sessionId/join", token |-> t,
      id |-> i, sessionId |-> k, body |-> Undefined] :
        t \in RaceTokens, i \in GroupIds, k \in SessionIds}
    \cup {[route |-> "POST /api/study-groups/sessions/join-by-code", token |-> t,
           id |-> 0, sessionId |-> 0, body |-> [code |-> c]] :
        t \in RaceTokens, c \in {Undefined, Str("code1"), Str("code9")}}

\* a create request is sent while the collection has a place for its group
ReceiveRace ==
    \E w \in Workers, request \in MemberRequests :
        /\ request.route = "POST /api/study-groups" =>
              Cardinality({i \in GroupIds : groups[i] = NoDoc}) >
              Cardinality({x \in Workers : inflight[x].route = "POST /api/study-groups"})
        /\ Receive(w, request)

InitRace ==
    /\ InitAI
    /\ InitHttp
    /\ plans = <<>>
    /\ attempts = <<>>
    /\ userProgress = <<>>
    /\ quizzes = <<>>
    /\ groups \in {[i \in GroupIds |-> NoDoc], RaceGroups}
    /\ groupsBefore = groups
    /\ InitSockets
    /\ ServerUp
    /\ InitStudy
    /\ InitInflight

NextRace ==
    \/ ReceiveRace
    \/ \E w \in Workers : FindGroup(w)
    \/ \E w \in Workers : SaveGroup(w)
    \/ \E w \in Workers : Respond(w)

SpecRace == InitRace /\ [][NextRace]_vars

\* concurrent requests to join the session of the seeded group
ReceiveAttend == \E w \in Workers, request \in AttendRequests : Receive(w, request)

InitAttend ==
    /\ InitAI
    /\ InitHttp
    /\ plans = <<>>
    /\ attempts = <<>>
    /\ userProgress = <<>>
    /\ quizzes = <<>>
    /\ groups = RaceGroups
    /\ groupsBefore = groups
    /\ InitSockets
    /\ ServerUp
    /\ InitStudy
    /\ InitInflight

NextAttend ==
    \/ ReceiveAttend
    \/ \E w \in Workers : FindGroup(w)
    \/ \E w \in Workers : SaveGroup(w)
    \/ \E w \in Workers : Respond(w)

SpecAttend == InitAttend /\ [][NextAttend]_vars

\* the largest number of topics of a plan. The create handlers store one to
\* five topics; PUT /api/study/plans/:id writes whatever topics array its
\* body carries (findOneAndUpdate with req.body), so longer lists are stored
\* plans too.
MaxTopics == 40

TopicId(i) == "t" \o ToString(i)

\* a plan of u1 with n topics of which the first k are completed
PlanWithTopics(n, k) ==
    [user |-> ObjectId("u1"), title |-> Str("plan"), dailyContent |-> <<1>>,
     topics |-> [i \in 1..n |->
                   [id |-> TopicId(i),
                    status |-> IF i <= k THEN Str("completed") ELSE Str("not_started"),
                    completed |-> i <= k]],
     progress |-> [completedTopics |-> k, totalTopics |-> n,
                   percentage |-> Percentage(k, n)]]

ProgressRequests ==
    {[route |-> "PUT /api/study/plans/:planId/topics/:topicId", token |-> t,
      id |-> i, topicId |-> k, body |-> b] :
        t \in {[kind |-> "valid", user |-> u] : u \in Users}, i \in 1..2,
        k \in {TopicId(0), TopicId(1), TopicId(MaxTopics)}, b \in StatusBodies}

SendProgress == \E request \in ProgressRequests : Send(request)

InitProgress ==
    /\ InitAI
    /\ InitHttp
    /\ \E n \in {1, MaxTopics} : \E k \in 0..(n - 1) : plans = <<PlanWithTopics(n, k)>>
    /\ attempts = <<>>
    /\ userProgress = <<>>
    /\ quizzes = <<>>
    /\ groups = [i \in GroupIds |-> NoDoc]
    /\ groupsBefore = groups
    /\ InitSockets
    /\ ServerUp
    /\ InitStudy
    /\ InitInflight

NextProgress ==
    \/ SendProgress
    \/ Authenticate
    \/ Finish
    \/ UpdateTopicStatus

SpecProgress == InitProgress /\ [][NextProgress]_vars

\* parseDuration of the service and of the controller, each called on its own
\* with one duration: nothing, or a string made of white space, up to two
\* digits and a word, in either order
DurationWords ==
    {[chars |-> <<>>, unit |-> "none"],
     [chars |-> Month, unit |-> "month"],
     [chars |-> <<"M", "O", "N", "T", "H", "S">>, unit |-> "month"],
     [chars |-> Week \o <<"s">>, unit |-> "week"],
     [chars |-> <<"W", "e", "e", "k">>, unit |-> "week"],
     [chars |-> Day \o <<"s">>, unit |-> "day"],
     [chars |-> <<"D", "A", "Y">>, unit |-> "day"],
     [chars |-> Week \o Day \o <<"s">>, unit |-> "week"],
     [chars |-> <<"y", "e", "a", "r">>, unit |-> "none"],
     [chars |-> <<"m", "o", "n">>, unit |-> "none"]}

DurationDigits == UNION {[1..n -> 0..MaxLead] : n \in 0..2}

DigitChars(digits) == [i \in 1..Len(digits) |-> ToString(digits[i])]

DurationCalls ==
    {[fn |-> "parseDuration", duration |-> Undefined, digits |-> <<>>, unit |-> "none"]}
    \cup {[fn |-> "parseDuration",
           duration |-> Chars(space \o DigitChars(digits) \o <<" ">> \o word.chars),
           digits |-> digits, unit |-> word.unit] :
            space \in {<<>>, <<" ">>}, digits \in DurationDigits, word \in DurationWords}
    \cup {[fn |-> "parseDuration",
           duration |-> Chars(word.chars \o <<" ">> \o DigitChars(digits)),
           digits |-> <<>>, unit |-> word.unit] :
            digits \in DurationDigits, word \in DurationWords \ {[chars |-> <<>>, unit |-> "none"]}}

ParsedBy(class) == \E i \in 1..Len(aiLog) : aiLog[i].class = class

ParseDuration(class, days) ==
    /\ aiCall.fn = "parseDuration"
    /\ ~ParsedBy(class)
    /\ aiLog' = Append(aiLog, [class |-> class, days |-> days])
    /\ UNCHANGED <<aiCall, aiResult, httpVars, dbVars, sockets, boot, inflight, study>>

CallAIServiceParseDuration ==
    ParseDuration("AIService", AIService_parseDuration(DurationOf(aiCall.duration)))

CallStudyControllerParseDuration ==
    ParseDuration("StudyController", StudyController_parseDuration(DurationOf(aiCall.duration)))

InitDuration ==
    /\ aiCall \in DurationCalls
    /\ aiResult = NoResult
    /\ aiLog = <<>>
    /\ InitHttp
    /\ plans = <<>>
    /\ attempts = <<>>
    /\ userProgress = <<>>
    /\ quizzes = <<>>
    /\ groups = [i \in GroupIds |-> NoDoc]
    /\ groupsBefore = groups
    /\ InitSockets
    /\ ServerUp
    /\ InitStudy
    /\ InitInflight

NextDuration ==
    \/ CallAIServiceParseDuration
    \/ CallStudyControllerParseDuration

SpecDuration == InitDuration /\ [][NextDuration]_vars

\* generateFallbackStudyPlan called on its own: its level, durationInDays and
\* learningStyle
MaxDays == 9
Levels == {"beginner", "intermediate", "advanced"}
LearningStyles == {"visual", "auditory", "reading", "kinesthetic"}

TemplateCalls ==
    {[fn |-> "generateFallbackStudyPlan", level |-> level, durationInDays |-> n,
      learningStyle |-> style] :
        level \in Levels, n \in 0..MaxDays, style \in LearningStyles}

CallGenerateFallbackStudyPlan ==
    /\ aiCall.fn = "generateFallbackStudyPlan"
    /\ aiResult = NoResult
    /\ aiResult' = Success(Arr(generateFallbackStudyPlan(Num(aiCall.durationInDays))))
    /\ UNCHANGED <<aiCall, aiLog, httpVars, dbVars, sockets, boot, inflight, study>>

InitTemplate ==
    /\ aiCall \in TemplateCalls
    /\ aiResult = NoResult
    /\ aiLog = <<>>
    /\ InitHttp
    /\ plans = <<>>
    /\ attempts = <<>>
    /\ userProgress = <<>>
    /\ quizzes = <<>>
    /\ groups = [i \in GroupIds |-> NoDoc]
    /\ groupsBefore = groups
    /\ InitSockets
    /\ ServerUp
    /\ InitStudy
    /\ InitInflight

NextTemplate == CallGenerateFallbackStudyPlan

SpecTemplate == InitTemplate /\ [][NextTemplate]_vars

\* the progress routes: sessions are started, ended and their sections
\* tracked by u1 and u2, with the sessionIds the server hands out and others
ProgressTokens == {[kind |-> "none"]} \cup {[kind |-> "valid", user |-> u] : u \in Users}

SessionIdStrings ==
    {SessionIdOf(id, sessionIndex) :
        id \in 1..(Cardinality(Users) + 1), sessionIndex \in 0..MaxStarts}
    \cup {Chars(<<"1">>), Chars(<<"x", "-", "0">>), Chars(<<"1", "-", "0", "-", "1">>)}

UserProgressRequests ==
    {[route |-> "POST /api/study/progress/start", token |-> t,
      body |-> [studyPlanId |-> 1, topicId |-> "t1"]] : t \in ProgressTokens}
    \cup {[route |-> "POST /api/study/progress/end", token |-> t,
           body |-> [sessionId |-> sid, completed |-> c]] :
            t \in ProgressTokens, sid \in SessionIdStrings \cup {Undefined}, c \in BOOLEAN}
    \cup {[route |-> "POST /api/study/progress/section", token |-> t,
           body |-> [sessionId |-> sid, sectionName |-> "Overview"]] :
            t \in ProgressTokens, sid \in SessionIdStrings \cup {Undefined}}

\* a record gets no more than MaxStarts sessions
SendUserProgress ==
    \E request \in UserProgressRequests :
        /\ request.route = "POST /api/study/progress/start" =>
              \A i \in 1..Len(userProgress) : Len(userProgress[i].studySessions) < MaxStarts
        /\ Send(request)

InitUserProgress ==
    /\ InitAI
    /\ InitHttp
    /\ plans = <<>>
    /\ attempts = <<>>
    /\ userProgress = <<>>
    /\ quizzes = <<>>
    /\ groups = [i \in GroupIds |-> NoDoc]
    /\ groupsBefore = groups
    /\ InitSockets
    /\ ServerUp
    /\ InitStudy
    /\ InitInflight

NextUserProgress ==
    \/ SendUserProgress
    \/ Authenticate
    \/ Finish
    \/ PostProgressStart
    \/ PostProgressEnd
    \/ PostProgressSection

SpecUserProgress == InitUserProgress /\ [][NextUserProgress]_vars

----------------------------------------------------------------------------
(* Properties *)

ProviderNames == {"groq", "gemini"}
Attempted(p) == \E i \in 1..Len(aiLog) : aiLog[i].p = p
Failed(p) == \E i \in 1..Len(aiLog) : aiLog[i].p = p /\ ~aiLog[i].ok
Succeeded(p) == \E i \in 1..Len(aiLog) : aiLog[i].p = p /\ aiLog[i].ok
Logged(e) == \E i \in 1..Len(aiLog) : aiLog[i].p = e

HasReturned(fn) == aiCall.fn = fn /\ aiResult # NoResult

\* C1: generate(prompt, 'auto') attempts Groq first, attempts Gemini only
\* after the Groq attempt has failed, synthesizes the template only after
\* both attempts have failed, and attempts nothing after a success.
C1_AutoChainInOrder ==
    (HasReturned("generate") /\ aiCall.provider = "auto") =>
        /\ Len(aiLog) >= 1
        /\ aiLog[1] = [p |-> "groq", ok |-> (aiCall.g.kind = "text")]
        /\ \A i \in 1..Len(aiLog) :
              /\ aiLog[i].p = "gemini" =>
                    /\ i = 2
                    /\ ~aiLog[1].ok
                    /\ aiLog[i].ok = (aiCall.m.kind = "text")
              /\ aiLog[i].p = "template" =>
                    /\ i = 3
                    /\ aiLog[1] = [p |-> "groq", ok |-> FALSE]
                    /\ aiLog[2] = [p |-> "gemini", ok |-> FALSE]
              /\ (aiLog[i].p \in ProviderNames /\ aiLog[i].ok) => i = Len(aiLog)
        /\ ~aiLog[1].ok => Attempted("gemini")
        /\ (Failed("groq") /\ Failed("gemini")) => Logged("template")

C1_Witness ==
    /\ HasReturned("generate")
    /\ aiCall.provider = "auto"
    /\ aiLog = <<[p |-> "groq", ok |-> FALSE], [p |-> "gemini", ok |-> FALSE],
                 TemplateEvent>>

\* C2: whatever the provider argument and whatever the providers do,
\* generate returns success = true, and fallback = true exactly when no
\* provider attempt succeeded.
C2_GenerateAlwaysSucceeds ==
    HasReturned("generate") =>
        LET groqAsked == aiCall.provider \in {"groq", "auto"}
            geminiAsked == aiCall.provider \in {"gemini", "auto"}
            someSucceeds == \/ groqAsked /\ aiCall.g.kind = "text"
                            \/ geminiAsked /\ aiCall.m.kind = "text"
        IN  /\ aiResult.success
            /\ aiResult.fallback <=> ~someSucceeds
            /\ aiResult.fallback <=> ~(Succeeded("groq") \/ Succeeded("gemini"))

C2_Witness ==
    /\ HasReturned("generate")
    /\ aiCall.provider = "gemini"
    /\ aiCall.m.kind = "nocandidates"
    /\ aiResult.success
    /\ aiResult.fallback

\* C7: when the first provider generateQuizQuestions attempts fails, the
\* other provider is tried, and the template quiz is used only after both
\* providers have failed.
C7_QuizTriesBothProviders ==
    HasReturned("generateQuizQuestions") =>
        /\ (Len(aiLog) >= 1 /\ aiLog[1].p \in ProviderNames /\ ~aiLog[1].ok) =>
              \A p \in ProviderNames : Attempted(p)
        /\ Logged("quiz-template") => \A p \in ProviderNames : Failed(p)

Answered == pc = "done" /\ handlerRuns = 1
Status == resps[Len(resps)].status

\* C3: an authenticated createStudyPlan request with subject, level and
\* duration, in which no provider succeeds, is answered 201 with a saved plan
\* whose dailyContent has the days 1..parseDuration(duration) in order.
C3_CreateStudyPlanAbsorbsAiFailure ==
    (/\ Answered
     /\ req.route = "POST /api/study/plans"
     /\ req.body.subject # Undefined
     /\ req.body.level # Undefined
     /\ req.body.duration # Undefined
     /\ ~(Succeeded("groq") \/ Succeeded("gemini"))
     /\ caught # "save") =>
        /\ Len(resps) = 1
        /\ Status = 201
        /\ Len(plans) >= 1
        /\ plans[Len(plans)].dailyContent =
              [i \in 1..StudyController_parseDuration(req.body.duration) |-> i]

\* C4: a createQuiz request whose generated questions cannot be used (the
\* provider failed or its content did not parse to a non-empty array) is
\* answered 201 with a saved quiz of questionCount template questions, 4
\* options each, correct index 0, and never 500.
C4_CreateQuizAbsorbsAiFailure ==
    (/\ Answered
     /\ req.route = "POST /api/study/quizzes"
     /\ Logged("fallback-questions")
     /\ req.body.isPublic
     /\ caught # "save") =>
        /\ Len(resps) = 1
        /\ Status = 201
        /\ Len(quizzes) >= 1
        /\ quizzes[Len(quizzes)].questions =
              generateFallbackQuestions(
                  IF req.body.questionCount = Undefined THEN DefaultQuestionCount
                  ELSE req.body.questionCount.n)

ValidToken == req.token.kind = "valid" /\ req.token.user \in Users

\* C5: on every route under /api/study, /api/ai, /api/upload and
\* /api/study-groups the handler runs only for a valid token of an existing
\* user, after authenticate has set req.userId; every other request gets
\* one 401 and no handler.
C5_GuardedRoutesAuthenticated ==
    Guarded(req.route) =>
        /\ (pc = "handler" \/ handlerRuns > 0) =>
              /\ ValidToken
              /\ reqUserId = ObjectId(req.token.user)
        /\ (pc = "done" /\ ~ValidToken) =>
              /\ handlerRuns = 0
              /\ Len(resps) = 1
              /\ resps[1].status = 401

C5_Witness ==
    /\ Guarded(req.route)
    /\ pc = "done"
    /\ req.token.kind = "valid"
    /\ req.token.user \in DeletedUsers
    /\ handlerRuns = 0
    /\ resps = <<Resp(401, [message |-> "Invalid token."])>>

\* C6: every handler sends exactly one response, and an error that reaches
\* the handler's catch is answered 500 with success = false and the generic
\* message.
C6_OneResponseGeneric500 ==
    Answered =>
        /\ Len(resps) = 1
        /\ caught # "" => resps[1] = Resp(500, Generic)

\* C8: uploadSyllabus, once the 'huggingface' call has produced no provider
\* content, attempts Groq, then Gemini if Groq fails, and uses the static
\* plan text only after all attempts have failed.
C8_UploadWalksProviderChain ==
    (/\ Answered
     /\ req.route = "POST /api/upload/syllabus"
     /\ req.files > 0) =>
        /\ Attempted("groq")
        /\ Failed("groq") => Attempted("gemini")
        /\ Logged("static-plan") => (Failed("groq") /\ Failed("gemini"))

Members(id) == groups[id].members
Caller == reqUserId

\* C9: no user ever appears twice in a group's members, and joinStudyGroup
\* answers a member's request to join a public group that has room 400 with
\* members unchanged.
C9_JoinNeverDuplicatesMember ==
    /\ \A id \in GroupIds :
          groups[id] # NoDoc =>
            \A i, j \in 1..Len(Members(id)) :
                i # j => Members(id)[i].user # Members(id)[j].user
    /\ (/\ Answered
        /\ req.route = "POST /api/study-groups/:id/join"
        /\ groupsBefore[req.id] # NoDoc
        /\ ~groupsBefore[req.id].isPrivate
        /\ Len(groupsBefore[req.id].members) < groupsBefore[req.id].maxMembers
        /\ \E i \in 1..Len(groupsBefore[req.id].members) :
              groupsBefore[req.id].members[i].user = Caller) =>
          /\ Status = 400
          /\ groups = groupsBefore

\* C10: deleteStudyGroup deletes the group exactly when the caller is its
\* creator: the creator's request removes it and succeeds, any other
\* caller gets 403 and the group stays.
C10_DeleteExactlyByCreator ==
    (/\ Answered
     /\ req.route = "DELETE /api/study-groups/:id"
     /\ groupsBefore[req.id] # NoDoc
     /\ caught = "") =>
        IF groupsBefore[req.id].creator = Caller
        THEN Status = 200 /\ groups[req.id] = NoDoc
        ELSE Status = 403 /\ groups = groupsBefore

\* C11: leaveStudyGroup removes the caller from members exactly when the
\* caller is a member other than the creator; the creator and a non-member
\* get 400 and members stays as it was.
C11_LeaveExactlyNonCreatorMember ==
    (/\ Answered
     /\ req.route = "POST /api/study-groups/:id/leave"
     /\ groupsBefore[req.id] # NoDoc
     /\ caught = "") =>
        LET before == groupsBefore[req.id]
            wasMember == \E i \in 1..Len(before.members) : before.members[i].user = Caller
        IN  IF wasMember /\ before.creator # Caller
            THEN /\ Status = 200
                 /\ Members(req.id) =
                       SelectSeq(before.members, LAMBDA member : member.user # Caller)
            ELSE /\ Status = 400
                 /\ groups = groupsBefore

\* C12: updateStudyGroup takes effect exactly when the caller is the creator
\* or an admin or moderator member, and then changes settings only (creator
\* and members stay); every other caller gets 403 and the group is unchanged.
C12_UpdateExactlyByAdmins ==
    (/\ Answered
     /\ req.route = "PUT /api/study-groups/:id"
     /\ groupsBefore[req.id] # NoDoc
     /\ caught = "") =>
        LET before == groupsBefore[req.id]
            mayUpdate ==
                \/ before.creator = Caller
                \/ \E i \in 1..Len(before.members) :
                      /\ before.members[i].user = Caller
                      /\ before.members[i].role \in {"admin", "moderator"}
        IN  IF mayUpdate
            THEN /\ Status = 200
                 /\ groups[req.id] = ApplyUpdates(before, req.body)
                 /\ groups[req.id].creator = before.creator
                 /\ groups[req.id].members = before.members
            ELSE /\ Status = 403
                 /\ groups = groupsBefore

C15_SessionEndedClosesViews ==
    \A c \in Clients, sessionId \in SessionIds :
        (/\ Answered
         /\ req.route = "POST /api/study-groups/:id/sessions/:sessionId/end"
         /\ req.sessionId = sessionId
         /\ Status = 200
         /\ sockets.view[c] = sessionId)
            ~> (sockets.got[c] /\ sockets.view[c] = 0)

\* C16: server.listen is reached only with the MongoDB connection
\* established, never while the connection attempt has failed and no
\* connection exists.
C16_ListenOnlyAfterDbConnected ==
    boot.pc = "listening" => boot.dbAtListen = "connected"

\* C17: for an existing quiz with at least one question submitQuizAttempt
\* answers with correctAnswers = the number of positions where the answer
\* equals the question's correct index (a missing answer is wrong),
\* totalQuestions = the number of questions and score = 100 * correctAnswers
\* / totalQuestions; for an unknown quizId it answers 404 and stores nothing.
C17_QuizScoredByPosition ==
    (/\ Answered
     /\ req.route = "POST /api/study/quiz-attempts"
     /\ req.body.answers # Undefined
     /\ caught # "save") =>
        IF req.body.quizId \in 1..Len(quizzes)
        THEN LET questions == quizzes[req.body.quizId].questions
                 answers == req.body.answers.items
                 right == {i \in 1..Len(questions) :
                              i <= Len(answers) /\ answers[i] = questions[i].correct}
             IN  /\ Status = 200
                 /\ resps[1].body.correctAnswers = Cardinality(right)
                 /\ resps[1].body.totalQuestions = Len(questions)
                 /\ resps[1].body.score = Score(Cardinality(right), Len(questions))
                 /\ Len(attempts) = 1
        ELSE /\ Status = 404
             /\ attempts = <<>>
    /\ userProgress = <<>>

\* C18: the end-session request with completed = true is never sent while
\* completedSections has fewer than 5 elements, and completedSections only
\* ever grows while the component is shown.
C18_CompleteOnlyAfterAllSections ==
    /\ [](\A r \in study.sent :
            r.completed => Cardinality(r.sectionsCompleted) = NumSections)
    /\ [][(study.ui.mounted /\ study'.ui.mounted) =>
            study.ui.completedSections \subseteq study'.ui.completedSections]_vars

C18_Witness ==
    /\ \E sessionId \in {StudySessionId(n) : n \in 1..MaxStarts} :
          study.sent = {[sessionId |-> sessionId, completed |-> TRUE,
                         sectionsCompleted |-> Sections]}
    /\ study.ui.mounted
    /\ study.ui.completedSections = Sections

ChatBefore == IF groupsBefore[req.id] = NoDoc THEN <<>> ELSE groupsBefore[req.id].chat.messages
ChatAfter == IF groups[req.id] = NoDoc THEN <<>> ELSE groups[req.id].chat.messages

\* C19: the group chat keeps only the last 1000 messages: chat.messages never
\* has more than 1000 entries, and after a message was added it holds the
\* messages it held before and the new one last, in the order they were
\* sent, without the oldest of them when they would be more than 1000.
C19_ChatKeepsLastMessages ==
    /\ \A id \in GroupIds :
          groups[id] # NoDoc => Len(groups[id].chat.messages) <= ChatCap
    /\ (Answered /\ req.route = "POST /api/study-groups/:id/chat"
                  /\ ChatAfter # ChatBefore) =>
          LET added == ChatBefore \o
                        <<ChatMessage(Caller, req.body.content,
                                      ChatAfter[Len(ChatAfter)].type, Now(ChatBefore))>>
              keep == IF Len(added) > ChatCap THEN ChatCap ELSE Len(added)
          IN  /\ Len(ChatAfter) = keep
              /\ \A i \in 1..keep : ChatAfter[i] = added[Len(added) - keep + i]
    /\ (Answered /\ req.route = "POST /api/study-groups/:id/chat" /\ Status = 200) =>
          ChatAfter # ChatBefore

\* a message was sent to a chat that held 1000: the oldest one is gone
C19_Witness ==
    /\ Answered
    /\ req.route = "POST /api/study-groups/:id/chat"
    /\ Status = 200
    /\ Len(ChatBefore) = ChatCap
    /\ Len(ChatAfter) = ChatCap
    /\ ChatAfter[1] = ChatBefore[2]
    /\ ChatAfter[ChatCap].user = Caller

PlanRoutes ==
    {"GET /api/study/plans", "PUT /api/study/plans/:id",
     "PUT /api/study/plans/:planId/topics/:topicId",
     "GET /api/study/plans/:planId/topics/:topicId/content"}

\* C20: study plans are isolated per user: a request to getStudyPlans,
\* updateStudyPlan, updateTopicStatus or getStudyContent returns and changes
\* only plans of the caller, is answered 404 for the id of another user's
\* plan, which it leaves as it was, and never changes the owner of a plan.
C20_PlansIsolatedPerUser ==
    [][(pc = "handler" /\ req.route \in PlanRoutes) =>
          /\ Len(plans') = Len(plans)
          /\ \A i \in 1..Len(plans) :
                /\ plans'[i].user = plans[i].user
                /\ plans[i].user # Caller => plans'[i] = plans[i]
          /\ (req.route = "GET /api/study/plans" /\ Status' = 200) =>
                LET studyPlans == resps'[Len(resps')].body.studyPlans
                IN  \A i \in 1..Len(studyPlans) : studyPlans[i].user = Caller
          /\ (/\ req.route # "GET /api/study/plans"
              /\ req.id \in 1..Len(plans)
              /\ plans[req.id].user # Caller
              /\ caught' = "") => Status' = 404]_vars

\* C21: in every reachable state each study group has at most
\* settings.maxMembers members, whatever the order and the interleaving of
\* concurrent create, join, leave and update requests.
C21_MembersWithinMax ==
    \A id \in GroupIds :
        groups[id] # NoDoc => Len(groups[id].members) <= groups[id].maxMembers

\* C22: the attendees of a session never contain the same user twice, for
\* any order and any interleaving of concurrent joinSession and
\* joinSessionByCode requests, two requests of one user that both read the
\* group before either saves included.
C22_AttendeesDistinct ==
    \A id \in GroupIds :
        groups[id] # NoDoc =>
            \A k \in 1..Len(groups[id].sessions) :
                LET attendees == groups[id].sessions[k].attendees
                IN  \A i \in 1..Len(attendees), j \in 1..Len(attendees) :
                        attendees[i].user = attendees[j].user => i = j

\* two requests of one user were in flight together: the first has saved
\* the user as the only attendee, the save of the second, which had read the
\* group before, was refused and answered 500
C22_Witness ==
    \E w \in Workers, x \in Workers :
        /\ w # x
        /\ inflight[w].pc = "done" /\ inflight[x].pc = "done"
        /\ inflight[w].route \in AttendRoutes /\ inflight[x].route \in AttendRoutes
        /\ inflight[w].userId = inflight[x].userId
        /\ inflight[w].status = 200
        /\ inflight[x].status = 500
        /\ inflight[x].error = "VersionError"
        /\ groups[1].sessions[1].attendees = <<Attendee(inflight[w].userId)>>

CompletedTopics(studyPlan) ==
    Cardinality({i \in 1..Len(studyPlan.topics) :
                    studyPlan.topics[i].status = Str("completed")})

\* round(100 * c / t), halves upwards
RoundPercent(c, t) == (200 * c + t) \div (2 * t)

\* C23: after every successful updateTopicStatus the plan's progress has
\* completedTopics = the number of topics with status 'completed',
\* totalTopics = the number of topics and percentage =
\* round(100 * completedTopics / totalTopics), which lies in 0..100; an
\* unknown plan or topic id is answered 404 and the plans stay as they were.
C23_ProgressMatchesTopics ==
    [][(pc = "handler" /\ req.route = "PUT /api/study/plans/:planId/topics/:topicId") =>
          /\ Status' = 200 =>
                LET studyPlan == plans'[req.id]
                    progress == studyPlan.progress
                IN  /\ progress.completedTopics = CompletedTopics(studyPlan)
                    /\ progress.totalTopics = Len(studyPlan.topics)
                    /\ progress.percentage =
                          RoundPercent(progress.completedTopics, progress.totalTopics)
                    /\ progress.percentage \in 0..100
          /\ (caught' = "" /\
                (\/ req.id \notin 1..Len(plans)
                 \/ TopicById(plans[req.id].topics, req.topicId) = 0)) =>
                (Status' = 404 /\ plans' = plans)]_vars

\* the number the digits in front of a duration write, NaN without digits
LeadingInteger(digits) ==
    IF Len(digits) = 0 THEN NaN
    ELSE IF Len(digits) = 1 THEN digits[1]
    ELSE 10 * digits[1] + digits[2]

\* the days stated for a duration with leading integer n of the given unit
StatedDays(n, unit) ==
    IF unit = "month" THEN (IF n = NaN THEN 30 ELSE 30 * n)
    ELSE IF unit = "week" THEN (IF n = NaN THEN 7 ELSE 7 * n)
    ELSE IF n = NaN THEN 30 ELSE n

DurationsParsed(days(_, _)) ==
    \A i \in 1..Len(aiLog) :
        aiLog[i].days = days(LeadingInteger(aiCall.digits), aiCall.unit)

NonZero(n) == IF n = 0 THEN NaN ELSE n
AmendedDays(n, unit) == StatedDays(NonZero(n), unit)

DifficultyRank(difficulty) ==
    IF difficulty = "Basic" THEN 1 ELSE IF difficulty = "Intermediate" THEN 2 ELSE 3

\* the plan generateFallbackStudyPlan has returned for n days
TemplatePlan == aiResult.content.items

NeverDecreases(plan) ==
    \A i \in 1..Len(plan), j \in 1..Len(plan) :
        i <= j => DifficultyRank(plan[i].difficulty) <= DifficultyRank(plan[j].difficulty)

TemplateReturned(n) ==
    /\ aiCall.fn = "generateFallbackStudyPlan"
    /\ aiCall.durationInDays = n
    /\ aiResult # NoResult

EndRequested(sessionId, sent) == \E r \in sent : r.sessionId = sessionId

\* C26: every study session started from the StudySession view is ended on
\* the server: once the view is closed an end request has gone out for every
\* sessionId a start request returned to it, and when the view, holding a
\* sessionId, is closed or re-targeted without completion, an end request
\* with completed = false goes out for that sessionId.
C26_StartedSessionsEnded ==
    /\ [](~study.ui.mounted =>
            \A n \in 1..study.started : EndRequested(StudySessionId(n), study.sent))
    /\ [][(/\ study.ui.mounted
           /\ study.ui.sessionId # Null
           /\ ~study'.ui.mounted \/ study'.ui.target # study.ui.target
           /\ ~\E r \in study'.sent \ study.sent : r.completed) =>
              \E r \in study'.sent :
                  r.sessionId = study.ui.sessionId /\ ~r.completed]_vars

ProgressWrites == {"POST /api/study/progress/end", "POST /api/study/progress/section"}

\* C27: study-session progress is isolated per user: endStudySession and
\* trackSectionCompletion change a progress record only if it belongs to the
\* authenticated user; a sessionId naming another user's record leaves that
\* record as it was.
C27_ProgressIsolatedPerUser ==
    [][(pc = "handler" /\ req.route \in ProgressWrites) =>
          \A i \in 1..Len(userProgress) :
              userProgress[i].user # reqUserId => userProgress'[i] = userProgress[i]]_vars

====
